---- MODULE Spec2Model ----
(***************************************************************************)
(* Model of src/freedreno/vulkan/tu_pipeline.c (turnip pipeline builder):  *)
(* the descriptor-prefetch sizer and emitter, the command-stream budget of *)
(* a graphics and of a compute pipeline build, and the inter-stage linkage *)
(* map that tu6_emit_vpc programs.                                         *)
(*                                                                         *)
(* Bit masks of the C code are modelled as sets of bit positions: `a & b`  *)
(* is intersection, `a | b` union, util_bitcount is Cardinality.           *)
(***************************************************************************)
EXTENDS Integers, Sequences, FiniteSets, TLC

VARIABLES
    pc,        \* position of the running operation
    kind,      \* "compute" | "graphics": which create call is running
    pipeline,  \* struct tu_pipeline (layout, active_desc_sets, cs, ...)
    builder,   \* struct tu_pipeline_builder (graphics) / locals of the compute create
    alloc,     \* what tu_pipeline_allocate_cs computed (ghost record of its locals)
    load_cs,   \* the sub-stream tu6_emit_load_state fills (reserved size, packets)
    vpc,       \* inputs of tu6_emit_vpc: last_shader, fs
    linkage,   \* struct ir3_shader_linkage, local of tu6_emit_vpc
    vpc_out,   \* what tu6_emit_vpc programs (locations, counts) and ghost history
    cmd,       \* the arguments of the register encoder that runs (blend, scissor, ...)
    regs,      \* the registers that encoder wrote, by register name
    create     \* the create call: injected fault, VkResult, *pPipeline, objects alive

vars == <<pc, kind, pipeline, builder, alloc, load_cs, vpc, linkage, vpc_out, cmd, regs, create>>

(***************************************************************************)
(* Bounds of the model.                                                    *)
(***************************************************************************)
MaxSets == 2          \* pipeline layouts have 1..MaxSets descriptor sets
MaxBindings == 2      \* every set layout has 1..MaxBindings bindings
BigArraySize == 64    \* the large descriptor-array size that is drawn
MaxVaryings == 2      \* generic varyings VAR0.. the last geometry stage may write
MaxStreamOutputs == 2 \* captured (stream-out) outputs drawn per shader
MaxAttachments == 2   \* colour attachments of the subpass

(***************************************************************************)
(* Program constants.                                                      *)
(***************************************************************************)
MAX_SETS == 4                  \* tu_private.h, used at line 174
A6XX_TEX_CONST_DWORDS == 16    \* a6xx.xml.h, used at line 176
MAX_VERTEX_ATTRIBS == 32       \* tu_private.h, used at line 2140
MAX_RTS == 8                   \* tu_private.h, used at line 264
MESA_SHADER_STAGES == 6        \* shader_enums.h, used at line 1875
LOAD_STATE_PACKET_DWORDS == 4  \* const unsigned load_state_size = 4 (line 68)
CS_HEADER_MARGIN == 2048       \* line 1871
PROGRAM_CS_SIZE == 512         \* lines 2102, 2106, 2635
NUM_UNIT_MAX == 1023           \* MIN2(count, 1024-1), line 61

Min2(a, b) == IF a < b THEN a ELSE b
Max2(a, b) == IF a > b THEN a ELSE b

\* Shader stages, numbered as gl_shader_stage; bit s of a VkShaderStageFlags
\* mask is stage s.
MESA_SHADER_VERTEX == 0
MESA_SHADER_TESS_CTRL == 1
MESA_SHADER_TESS_EVAL == 2
MESA_SHADER_GEOMETRY == 3
MESA_SHADER_FRAGMENT == 4
MESA_SHADER_COMPUTE == 5

VK_SHADER_STAGE_COMPUTE_BIT == {5}
VK_SHADER_STAGE_ALL_GRAPHICS == 0 .. 4
VK_SHADER_STAGE_ALL == 0 .. 30      \* 0x7FFFFFFF: extra bits above the six stages

DescriptorTypes ==
    << "SAMPLER", "COMBINED_IMAGE_SAMPLER", "SAMPLED_IMAGE", "STORAGE_IMAGE",
       "UNIFORM_TEXEL_BUFFER", "STORAGE_TEXEL_BUFFER", "UNIFORM_BUFFER",
       "STORAGE_BUFFER", "UNIFORM_BUFFER_DYNAMIC", "STORAGE_BUFFER_DYNAMIC",
       "INPUT_ATTACHMENT" >>

StageMaskChoices ==
    << {MESA_SHADER_VERTEX},
       {MESA_SHADER_VERTEX, MESA_SHADER_FRAGMENT},
       VK_SHADER_STAGE_COMPUTE_BIT,
       VK_SHADER_STAGE_ALL,
       {} >>

ArraySizeChoices == << 1, BigArraySize, 0, 2 >>

(***************************************************************************)
(* Pipeline layouts (struct tu_pipeline_layout, an input).  A layout is    *)
(* drawn by a seed <<t, s, a>>: binding j of set i takes the descriptor    *)
(* type, stage mask and array size found by stepping from the seed through *)
(* the three choice lists, so that every type meets every stage mask and   *)
(* every array size at every position.  Offsets are laid out the way the   *)
(* set-layout code lays them out: static descriptors packed in binding     *)
(* order, dynamic ones counted in their own index space.                   *)
(***************************************************************************)
IsDynamicType(type) == type \in {"UNIFORM_BUFFER_DYNAMIC", "STORAGE_BUFFER_DYNAMIC"}

DescriptorBytes(type) ==
    IF IsDynamicType(type) \/ type = "INPUT_ATTACHMENT" THEN 0
    ELSE IF type = "COMBINED_IMAGE_SAMPLER" THEN 2 * A6XX_TEX_CONST_DWORDS * 4
    ELSE A6XX_TEX_CONST_DWORDS * 4

SeedType(seed, i, j) == DescriptorTypes[((seed[1] + 3 * i + j) % Len(DescriptorTypes)) + 1]
SeedStages(seed, i, j) == StageMaskChoices[((seed[2] + i + j) % Len(StageMaskChoices)) + 1]
SeedArray(seed, i, j) == ArraySizeChoices[((seed[3] + i + j) % Len(ArraySizeChoices)) + 1]

RECURSIVE SeedOffset(_, _, _)
SeedOffset(seed, i, j) ==
    IF j = 0 THEN 0
    ELSE SeedOffset(seed, i, j - 1)
         + DescriptorBytes(SeedType(seed, i, j - 1)) * SeedArray(seed, i, j - 1)

RECURSIVE SeedDynamicCount(_, _, _)
\* number of dynamic descriptors in bindings 0..j-1 of set i
SeedDynamicCount(seed, i, j) ==
    IF j = 0 THEN 0
    ELSE SeedDynamicCount(seed, i, j - 1)
         + (IF IsDynamicType(SeedType(seed, i, j - 1)) THEN SeedArray(seed, i, j - 1) ELSE 0)

RECURSIVE SeedDynamicStart(_, _, _)
\* dynamic_offset_start of set i: dynamic descriptors of the sets before it
SeedDynamicStart(seed, nb, i) ==
    IF i = 0 THEN 0
    ELSE SeedDynamicStart(seed, nb, i - 1) + SeedDynamicCount(seed, i - 1, nb)

SeedBinding(seed, i, j) ==
    [ type |-> SeedType(seed, i, j),
      shader_stages |-> SeedStages(seed, i, j),
      array_size |-> SeedArray(seed, i, j),
      offset |-> SeedOffset(seed, i, j),
      dynamic_offset_offset |-> SeedDynamicCount(seed, i, j) ]

SeedLayout(seed, ns, nb) ==
    [ num_sets |-> ns,
      set |-> [ i \in 0 .. ns - 1 |->
                 [ layout |-> [ binding_count |-> nb,
                                binding |-> [ j \in 0 .. nb - 1 |-> SeedBinding(seed, i, j) ] ],
                   dynamic_offset_start |-> SeedDynamicStart(seed, nb, i) ] ] ]

Seeds ==
    (0 .. Len(DescriptorTypes) - 1) \X (0 .. Len(StageMaskChoices) - 1)
        \X (0 .. Len(ArraySizeChoices) - 1)

(***************************************************************************)
(* tu6_load_state_size (lines 65-124).                                     *)
(***************************************************************************)
FilterStages(binding, compute) ==
    IF compute THEN binding.shader_stages \cap VK_SHADER_STAGE_COMPUTE_BIT
    ELSE binding.shader_stages \cap VK_SHADER_STAGE_ALL_GRAPHICS

\* mutant of BindingPacketCount: a combined image/sampler counted once per element
BindingPacketCount_PerElement(binding, compute) ==
    LET stages == FilterStages(binding, compute)
        stage_count == Cardinality(stages)
    IN  IF binding.array_size = 0 THEN 0
        ELSE IF binding.type \in {"STORAGE_BUFFER", "STORAGE_BUFFER_DYNAMIC",
                                   "STORAGE_IMAGE", "STORAGE_TEXEL_BUFFER"}
             THEN (IF stages \ VK_SHADER_STAGE_COMPUTE_BIT # {} THEN 1 ELSE 0)
                  + (IF stages \cap VK_SHADER_STAGE_COMPUTE_BIT # {} THEN 1 ELSE 0)
        ELSE IF binding.type = "COMBINED_IMAGE_SAMPLER" THEN stage_count * binding.array_size
        ELSE IF binding.type = "INPUT_ATTACHMENT" THEN 0
        ELSE stage_count

\* the `count` of one binding: body of the inner loop, lines 76-119
BindingPacketCount(binding, compute) ==
    LET stages == FilterStages(binding, compute)
        stage_count == Cardinality(stages)
    IN  IF binding.array_size = 0 THEN 0
        ELSE CASE binding.type \in {"STORAGE_BUFFER", "STORAGE_BUFFER_DYNAMIC",
                                     "STORAGE_IMAGE", "STORAGE_TEXEL_BUFFER"} ->
                     (IF stages \ VK_SHADER_STAGE_COMPUTE_BIT # {} THEN 1 ELSE 0)
                     + (IF stages \cap VK_SHADER_STAGE_COMPUTE_BIT # {} THEN 1 ELSE 0)
               [] binding.type \in {"SAMPLER", "SAMPLED_IMAGE", "UNIFORM_TEXEL_BUFFER",
                                     "UNIFORM_BUFFER", "UNIFORM_BUFFER_DYNAMIC"} ->
                     stage_count
               [] binding.type = "COMBINED_IMAGE_SAMPLER" ->
                     stage_count * binding.array_size * 2
               [] binding.type = "INPUT_ATTACHMENT" -> 0

RECURSIVE SetLoadStateSize(_, _, _)
\* the inner loop over bindings j .. binding_count-1 of one set layout
SetLoadStateSize(set_layout, j, compute) ==
    IF j >= set_layout.binding_count THEN 0
    ELSE BindingPacketCount(set_layout.binding[j], compute) * LOAD_STATE_PACKET_DWORDS
         + SetLoadStateSize(set_layout, j + 1, compute)

RECURSIVE LoadStateSizeFrom(_, _, _)
\* the outer loop over sets i .. num_sets-1
LoadStateSizeFrom(p, i, compute) ==
    IF i >= p.layout.num_sets THEN 0
    ELSE (IF i \notin p.active_desc_sets THEN 0
          ELSE SetLoadStateSize(p.layout.set[i].layout, 0, compute))
         + LoadStateSizeFrom(p, i + 1, compute)

tu6_load_state_size(p, compute) == LoadStateSizeFrom(p, 0, compute)

(***************************************************************************)
(* emit_load_state (lines 46-63): one CP_LOAD_STATE6 packet, 4 dwords.     *)
(* `set` and `binding` are ghost fields: the loop indices of               *)
(* tu6_emit_load_state when the packet was emitted.                        *)
(***************************************************************************)
emit_load_state(opcode, st, sb, base, offset, count, i, j) ==
    [ opcode |-> opcode, st |-> st, sb |-> sb,
      num_unit |-> Min2(count, NUM_UNIT_MAX),
      base |-> base, offset |-> offset,
      set |-> i, binding |-> j ]

\* tu_foreach_stage: the set bits of a stage mask, lowest stage first
RECURSIVE StagesAscending(_)
StagesAscending(stages) ==
    IF stages = {} THEN << >>
    ELSE LET s == CHOOSE x \in stages : \A y \in stages : x <= y
         IN  << s >> \o StagesAscending(stages \ {s})

RECURSIVE Concat(_)
Concat(seqs) == IF seqs = << >> THEN << >> ELSE Head(seqs) \o Concat(Tail(seqs))

\* the two packets of array element e of a combined image/sampler (lines 222-231)
CombinedElementPackets(stage, base, offset, e, i, j) ==
    LET tex_offset == offset + 2 * e * A6XX_TEX_CONST_DWORDS
        sam_offset == offset + (2 * e + 1) * A6XX_TEX_CONST_DWORDS
    IN  << emit_load_state(<< "tu6_stage2opcode", stage >>, "ST6_CONSTANTS",
                           << "tu6_stage2texsb", stage >>, base, tex_offset, 1, i, j),
           emit_load_state(<< "tu6_stage2opcode", stage >>, "ST6_SHADER",
                           << "tu6_stage2texsb", stage >>, base, sam_offset, 1, i, j) >>

\* base and offset of a binding before the switch (lines 160-161) and as the
\* two *_DYNAMIC cases overwrite them (lines 174-176, 206-208)
\* mutant of BindingAddress: the *_DYNAMIC cases do not overwrite base and offset
BindingAddress_StaticOnly(lay, i, j) ==
    [ base |-> i, offset |-> lay.set[i].layout.binding[j].offset \div 4 ]

BindingAddress(lay, i, j) ==
    LET binding == lay.set[i].layout.binding[j]
    IN  IF binding.type \in {"STORAGE_BUFFER_DYNAMIC", "UNIFORM_BUFFER_DYNAMIC"}
        THEN [ base |-> MAX_SETS,
               offset |-> (lay.set[i].dynamic_offset_start + binding.dynamic_offset_offset)
                          * A6XX_TEX_CONST_DWORDS ]
        ELSE [ base |-> i, offset |-> binding.offset \div 4 ]

\* mutant of BindingPackets: IBO-backed bindings get a packet per stage
BindingPackets_PerStageIbo(lay, i, j, compute) ==
    LET binding == lay.set[i].layout.binding[j]
        stages == FilterStages(binding, compute)
        count == binding.array_size
        ord == StagesAscending(stages)
        a == BindingAddress(lay, i, j)
    IN  IF count = 0 \/ stages = {} \/ binding.type = "INPUT_ATTACHMENT" THEN << >>
        ELSE IF binding.type = "COMBINED_IMAGE_SAMPLER"
        THEN Concat([ n \in 1 .. Len(ord) |->
                Concat([ e \in 1 .. count |->
                    CombinedElementPackets(ord[n], a.base, a.offset, e - 1, i, j) ]) ])
        ELSE [ n \in 1 .. Len(ord) |->
                emit_load_state(<< "tu6_stage2opcode", ord[n] >>, "ST6_UBO",
                                << "tu6_stage2shadersb", ord[n] >>,
                                a.base, a.offset, count, i, j) ]

\* the packets of one binding: body of the inner loop, lines 158-237
BindingPackets(lay, i, j, compute) ==
    LET binding == lay.set[i].layout.binding[j]
        stages == FilterStages(binding, compute)
        count == binding.array_size
        ord == StagesAscending(stages)
        a == BindingAddress(lay, i, j)
    IN  IF count = 0 \/ stages = {} THEN << >>
        ELSE CASE binding.type \in {"STORAGE_BUFFER_DYNAMIC", "STORAGE_BUFFER",
                                     "STORAGE_IMAGE", "STORAGE_TEXEL_BUFFER"} ->
                     (IF stages \ VK_SHADER_STAGE_COMPUTE_BIT # {}
                      THEN << emit_load_state("CP_LOAD_STATE6", "ST6_SHADER", "SB6_IBO",
                                              a.base, a.offset, count, i, j) >>
                      ELSE << >>)
                     \o
                     (IF stages \cap VK_SHADER_STAGE_COMPUTE_BIT # {}
                      THEN << emit_load_state("CP_LOAD_STATE6_FRAG", "ST6_IBO", "SB6_CS_SHADER",
                                              a.base, a.offset, count, i, j) >>
                      ELSE << >>)
               [] binding.type = "INPUT_ATTACHMENT" -> << >>
               [] binding.type \in {"SAMPLER", "SAMPLED_IMAGE", "UNIFORM_TEXEL_BUFFER"} ->
                     [ n \in 1 .. Len(ord) |->
                         emit_load_state(<< "tu6_stage2opcode", ord[n] >>,
                                         IF binding.type = "SAMPLER"
                                         THEN "ST6_SHADER" ELSE "ST6_CONSTANTS",
                                         << "tu6_stage2texsb", ord[n] >>,
                                         a.base, a.offset, count, i, j) ]
               [] binding.type \in {"UNIFORM_BUFFER_DYNAMIC", "UNIFORM_BUFFER"} ->
                     [ n \in 1 .. Len(ord) |->
                         emit_load_state(<< "tu6_stage2opcode", ord[n] >>, "ST6_UBO",
                                         << "tu6_stage2shadersb", ord[n] >>,
                                         a.base, a.offset, count, i, j) ]
               [] binding.type = "COMBINED_IMAGE_SAMPLER" ->
                     Concat([ n \in 1 .. Len(ord) |->
                         Concat([ e \in 1 .. count |->
                             CombinedElementPackets(ord[n], a.base, a.offset, e - 1, i, j) ]) ])

RECURSIVE SetLoadStatePackets(_, _, _, _)
\* the inner loop over bindings j .. binding_count-1 of set i
SetLoadStatePackets(lay, i, j, compute) ==
    IF j >= lay.set[i].layout.binding_count THEN << >>
    ELSE BindingPackets(lay, i, j, compute) \o SetLoadStatePackets(lay, i, j + 1, compute)

RECURSIVE LoadStatePacketsFrom(_, _, _)
\* the outer loop over sets i .. num_sets-1 (lines 137-239)
LoadStatePacketsFrom(p, i, compute) ==
    IF i >= p.layout.num_sets THEN << >>
    ELSE (IF i \notin p.active_desc_sets THEN << >>
          ELSE SetLoadStatePackets(p.layout, i, 0, compute))
         \o LoadStatePacketsFrom(p, i + 1, compute)

(***************************************************************************)
(* The command stream (struct tu_cs, TU_CS_MODE_SUB_STREAM).  The stream   *)
(* is a linear buffer with a cursor; when a reservation does not fit into  *)
(* what is left of the current buffer the stream grows by a new buffer.    *)
(* `total` is the running total of everything carved out of the stream.    *)
(***************************************************************************)
tu_cs_init(initial_size) ==
    [ bo_count |-> 0, bo_size |-> 0, cur |-> 0, total |-> 0,
      next_bo_size |-> initial_size ]

tu_cs_reserve_space(cs, reserved_size) ==
    IF cs.bo_size - cs.cur < reserved_size
    THEN [ cs EXCEPT !.bo_count = @ + 1,
                     !.bo_size = Max2(cs.next_bo_size, reserved_size),
                     !.cur = 0 ]
    ELSE cs

\* tu_cs_begin_sub_stream .. tu_cs_end_draw_state: `size` dwords are reserved
\* at the cursor and the cursor advances by the dwords emitted into them
tu_cs_sub_stream(cs, size, emitted) ==
    LET r == tu_cs_reserve_space(cs, size)
    IN  [ r EXCEPT !.cur = @ + emitted, !.total = @ + emitted ]

\* tu_cs_alloc / tu_cs_draw_state: a block of `size` dwords is carved out at
\* the cursor
tu_cs_carve(cs, size) == tu_cs_sub_stream(cs, size, size)

\* what a program or vertex-input sub-stream of `size` reserved dwords may
\* hold when it is closed: the draw pass's and the binning pass's dwords
SubStreamUse(size) == { << size, size >>, << size \div 2, size \div 4 >> }

(***************************************************************************)
(* tu6_emit_load_state (lines 126-242).                                    *)
(***************************************************************************)
tu6_emit_load_state ==
    /\ pc = "emit_load_state"
    /\ LET compute == (kind = "compute")
           size == tu6_load_state_size(pipeline, compute)
           packets == LoadStatePacketsFrom(pipeline, 0, compute)
       IN  IF size = 0
           THEN UNCHANGED << pipeline, load_cs >>
           ELSE /\ load_cs' = [ reserved |-> size, packets |-> packets ]
                /\ pipeline' = [ pipeline EXCEPT
                                   !.cs = tu_cs_sub_stream(@, size,
                                              Len(packets) * LOAD_STATE_PACKET_DWORDS),
                                   !.load_state = Len(packets) * LOAD_STATE_PACKET_DWORDS ]
    /\ pc' = "built"
    /\ UNCHANGED << kind, builder, alloc, vpc, linkage, vpc_out, cmd, regs, create >>


\* the null pointer: a record no shader, variant or state block equals
NULL == [ null |-> TRUE ]

RangeDynamicStates ==       \* VK_DYNAMIC_STATE_VIEWPORT ... VK_DYNAMIC_STATE_STENCIL_REFERENCE
    << "VIEWPORT", "SCISSOR", "LINE_WIDTH", "DEPTH_BIAS", "BLEND_CONSTANTS",
       "DEPTH_BOUNDS", "STENCIL_COMPARE_MASK", "STENCIL_WRITE_MASK", "STENCIL_REFERENCE" >>

RangeDynamicStateSet == { RangeDynamicStates[n] : n \in 1 .. Len(RangeDynamicStates) }

\* the indices of pipeline->dynamic_state[] and the bits of dynamic_state_mask
DynamicStateIds == RangeDynamicStateSet \cup {"TU_DYNAMIC_STATE_SAMPLE_LOCATIONS"}

(***************************************************************************)
(* Values of the variables an operation does not use.                      *)
(***************************************************************************)
\* vk_object_zalloc'ed struct tu_pipeline with its layout set (lines 2418-2423,
\* 2596-2601): every other field is zero
ZeroPipeline(layout) ==
    [ layout |-> layout,
      active_desc_sets |-> {},
      active_stages |-> {},
      cs |-> tu_cs_init(0),
      dynamic_state_mask |-> {},
      dynamic_state |-> [ id \in DynamicStateIds |-> 0 ],
      program |-> [ state |-> 0, binning_state |-> 0 ],
      vi |-> [ state |-> 0, binning_state |-> 0 ],
      rast_state |-> 0,
      ds_state |-> 0,
      blend_state |-> 0,
      load_state |-> 0 ]

NoBuilder == [ shaders |-> << >> ]
NoAlloc == [ size |-> 0, load_state_size |-> 0, done |-> FALSE ]
NoLoadCs == [ reserved |-> 0, packets |-> << >> ]
NoVpc == [ last_shader |-> NULL, fs |-> NULL ]

\* struct ir3_shader_linkage linkage = { .primid_loc = 0xff } (line 800)
NoLinkage ==
    [ cnt |-> 0, var |-> << >>, max_loc |-> 0, varmask |-> {}, primid_loc |-> 255 ]

NoVpcOut == [ done |-> FALSE ]

NoCmd == [ op |-> "none" ]
NoRegs == << >>

\* no create call is running
NoCreate == [ fault |-> "none", result |-> "none", pPipeline |-> "none", live |-> {} ]

(***************************************************************************)
(* SpecLoadState: the prefetch sizer and emitter applied to every drawn    *)
(* layout, active-set mask and build kind.  The stream the block is carved *)
(* from is an initialised stream of the margin plus the sized block.       *)
(***************************************************************************)
InitLoadState ==
    /\ pc = "emit_load_state"
    /\ kind \in {"compute", "graphics"}
    /\ \E seed \in Seeds, ns \in 1 .. MaxSets, nb \in 1 .. MaxBindings :
         \E mask \in SUBSET (0 .. ns - 1) :
            LET p0 == [ ZeroPipeline(SeedLayout(seed, ns, nb)) EXCEPT
                          !.active_desc_sets = mask ]
                size == CS_HEADER_MARGIN + tu6_load_state_size(p0, kind = "compute")
            IN  pipeline = [ p0 EXCEPT !.cs = tu_cs_reserve_space(tu_cs_init(size), size) ]
    /\ builder = NoBuilder
    /\ alloc = NoAlloc
    /\ load_cs = NoLoadCs
    /\ vpc = NoVpc
    /\ linkage = NoLinkage
    /\ vpc_out = NoVpcOut
    /\ cmd = NoCmd
    /\ regs = NoRegs
    /\ create = NoCreate

NextLoadState == tu6_emit_load_state

SpecLoadState == InitLoadState /\ [][NextLoadState]_vars

(***************************************************************************)
(* Claims about the prefetch sizer and emitter.                            *)
(***************************************************************************)
IsCompute == (kind = "compute")

Bindings(p) ==
    { ij \in (0 .. p.layout.num_sets - 1) \X (0 .. MaxBindings + 1) :
        ij[2] < p.layout.set[ij[1]].layout.binding_count }

BindingOf(p, ij) == p.layout.set[ij[1]].layout.binding[ij[2]]

\* the packets in the emitted block that binding ij produced
PacketsOf(ij) ==
    { n \in 1 .. Len(load_cs.packets) :
        load_cs.packets[n].set = ij[1] /\ load_cs.packets[n].binding = ij[2] }

StorageClassTypes ==
    {"STORAGE_BUFFER", "STORAGE_BUFFER_DYNAMIC", "STORAGE_IMAGE", "STORAGE_TEXEL_BUFFER"}

\* C1: the size tu6_load_state_size returns (the size of the reserved block)
\* equals the dwords tu6_emit_load_state writes, 4 per emitted packet.
C1_SizeEqualsEmitted ==
    pc = "built" =>
        /\ load_cs.reserved = Len(load_cs.packets) * 4
        /\ tu6_load_state_size(pipeline, IsCompute) = Len(load_cs.packets) * 4
        /\ pipeline.load_state = load_cs.reserved

\* C1 witness: a block with packets of two different sets was emitted, from a
\* layout that holds a combined image/sampler array binding
C1_Witness ==
    /\ pc = "built"
    /\ \E m, n \in 1 .. Len(load_cs.packets) :
          load_cs.packets[m].set # load_cs.packets[n].set
    /\ \E ij \in Bindings(pipeline) :
          /\ BindingOf(pipeline, ij).type = "COMBINED_IMAGE_SAMPLER"
          /\ Cardinality(PacketsOf(ij)) > 2

\* the packet count the claim states for one binding with stage mask S
ClaimedPacketCount(binding, S) ==
    CASE binding.type \in {"SAMPLER", "SAMPLED_IMAGE", "UNIFORM_TEXEL_BUFFER",
                           "UNIFORM_BUFFER", "UNIFORM_BUFFER_DYNAMIC"} ->
             Cardinality(S)
      [] binding.type \in StorageClassTypes ->
             (IF S \cap VK_SHADER_STAGE_ALL_GRAPHICS # {} THEN 1 ELSE 0)
             + (IF S \cap VK_SHADER_STAGE_COMPUTE_BIT # {} THEN 1 ELSE 0)
      [] binding.type = "COMBINED_IMAGE_SAMPLER" ->
             2 * Cardinality(S) * binding.array_size
      [] binding.type = "INPUT_ATTACHMENT" -> 0

\* C5: for every binding with non-zero array size in an active set, the number
\* of prefetch packets (counted by the sizer and emitted by the emitter) is
\* popcount(S) for the per-stage types, at most one graphics-wide plus one
\* compute packet for storage-class types, 2 * popcount(S) * array_size for a
\* combined image/sampler, 0 for an input attachment.
C5_PacketCountPerBinding ==
    pc = "built" =>
        \A ij \in Bindings(pipeline) :
            LET b == BindingOf(pipeline, ij)
                S == FilterStages(b, IsCompute)
            IN  (ij[1] \in pipeline.active_desc_sets /\ b.array_size # 0) =>
                    /\ Cardinality(PacketsOf(ij)) = ClaimedPacketCount(b, S)
                    /\ BindingPacketCount(b, IsCompute) = ClaimedPacketCount(b, S)
                    /\ (b.type \in StorageClassTypes => Cardinality(PacketsOf(ij)) <= 2)

\* C5 witness: a storage-class binding visible to several graphics stages got
\* one packet, and a combined image/sampler array got 2 * stages * elements
C5_Witness ==
    /\ pc = "built"
    /\ \E ij \in Bindings(pipeline) :
          LET b == BindingOf(pipeline, ij)
          IN  /\ b.type \in StorageClassTypes
              /\ Cardinality(FilterStages(b, IsCompute)) > 1
              /\ Cardinality(PacketsOf(ij)) = 1
    /\ \E ij \in Bindings(pipeline) :
          LET b == BindingOf(pipeline, ij)
          IN  /\ b.type = "COMBINED_IMAGE_SAMPLER"
              /\ b.array_size > 1
              /\ Cardinality(FilterStages(b, IsCompute)) > 1
              /\ Cardinality(PacketsOf(ij)) > 0

DynamicAddress(p, ij) ==
    (p.layout.set[ij[1]].dynamic_offset_start + BindingOf(p, ij).dynamic_offset_offset)
        * A6XX_TEX_CONST_DWORDS

\* C6 as claimed: packets of storage-class and of dynamic-offset bindings carry
\* the dynamic base and the dynamic offset, every other packet the set index
\* and the binding offset / 4.
C6_Original ==
    pc = "built" =>
        \A ij \in Bindings(pipeline) : \A n \in PacketsOf(ij) :
            LET b == BindingOf(pipeline, ij)
                pk == load_cs.packets[n]
            IN  IF b.type \in StorageClassTypes \cup {"UNIFORM_BUFFER_DYNAMIC"}
                THEN pk.base = MAX_SETS /\ pk.offset = DynamicAddress(pipeline, ij)
                ELSE pk.base = ij[1] /\ pk.offset = b.offset \div 4

\* C6 amended: only the two dynamic-offset buffer types (uniform and storage)
\* carry the dynamic base MAX_SETS and the dynamic offset; every other packet,
\* those of non-dynamic storage-class bindings included, carries the set index
\* as base, with offset = binding offset / 4, except that the packets of
\* element e of a combined image/sampler are at binding offset / 4 +
\* 2 * e * A6XX_TEX_CONST_DWORDS (texture) and + (2 * e + 1) * ... (sampler).
C6_DynamicBaseOnlyForDynamicTypes ==
    pc = "built" =>
        \A ij \in Bindings(pipeline) : \A n \in PacketsOf(ij) :
            LET b == BindingOf(pipeline, ij)
                pk == load_cs.packets[n]
            IN  CASE b.type \in {"UNIFORM_BUFFER_DYNAMIC", "STORAGE_BUFFER_DYNAMIC"} ->
                       pk.base = MAX_SETS /\ pk.offset = DynamicAddress(pipeline, ij)
                  [] b.type = "COMBINED_IMAGE_SAMPLER" ->
                       /\ pk.base = ij[1]
                       /\ \E e \in 0 .. b.array_size - 1 :
                             pk.offset = b.offset \div 4
                                + (2 * e + (IF pk.st = "ST6_SHADER" THEN 1 ELSE 0))
                                  * A6XX_TEX_CONST_DWORDS
                  [] OTHER ->
                       pk.base = ij[1] /\ pk.offset = b.offset \div 4

\* C6 witness: the block holds a packet of a dynamic-offset binding whose
\* dynamic offset differs from its static one, and a packet of a non-dynamic
\* storage-class binding
C6_Witness ==
    /\ pc = "built"
    /\ \E ij \in Bindings(pipeline) :
          /\ IsDynamicType(BindingOf(pipeline, ij).type)
          /\ PacketsOf(ij) # {}
          /\ DynamicAddress(pipeline, ij) # BindingOf(pipeline, ij).offset \div 4
    /\ \E ij \in Bindings(pipeline) :
          /\ BindingOf(pipeline, ij).type \in StorageClassTypes \ {"STORAGE_BUFFER_DYNAMIC"}
          /\ PacketsOf(ij) # {}


(***************************************************************************)
(* The pipeline build.                                                     *)
(*                                                                         *)
(* Inputs (drawn by Init): the pipeline layout, the create-info (stages,   *)
(* dynamic-state list, rasterizer discard) and what the shader compiler    *)
(* answers for each stage (descriptor sets used, stream-out, binary size). *)
(***************************************************************************)
\* the compiler's answer for a stage: struct tu_shader and its variant
ShaderOf(stage, desc_sets, so_outputs) ==
    [ stage |-> stage,
      active_desc_sets |-> desc_sets,
      stream_output_num_outputs |-> so_outputs ]

\* ir3_shader_get_variant: info.sizedwords is a whole number of 32-dword
\* instruction groups
VariantOf(stage, binning) ==
    [ type |-> stage, binning_pass |-> binning,
      sizedwords |-> IF binning THEN 32 ELSE 32 * (stage + 1) ]

\* ir3_has_binning_vs: no reduced vertex variant with a geometry stage
ir3_has_binning_vs(key) == ~key.has_gs

\* tu_pipeline_builder_init_graphics (lines 2473-2530) / entry of
\* tu_compute_pipeline_create (lines 2587-2603)
InitBuilder(layout, create_info) ==
    [ layout |-> layout,
      create_info |-> create_info,
      shaders |-> [ s \in 0 .. MESA_SHADER_STAGES - 1 |-> NULL ],
      variants |-> [ s \in 0 .. MESA_SHADER_STAGES - 1 |-> NULL ],
      binning_variant |-> NULL,
      shader_iova |-> [ s \in 0 .. MESA_SHADER_STAGES - 1 |-> 0 ],
      binning_vs_iova |-> 0,
      rasterizer_discard |-> create_info.rasterizerDiscardEnable ]

(***************************************************************************)
(* The create call (tu_graphics_pipeline_create, lines 2532-2556, and      *)
(* tu_compute_pipeline_create, lines 2580-2651): the fault the call meets  *)
(* ("shader": tu_shader_create returns NULL, "variant":                    *)
(* ir3_shader_get_variant returns NULL, "allocate": tu_cs_reserve_space    *)
(* fails), its VkResult, *pPipeline, and the objects it holds: the         *)
(* pipeline object, the shader objects, the initialised command stream.    *)
(***************************************************************************)
Faults == { "none", "shader", "variant", "allocate" }

\* the objects a call can hold, as << class, index >>
PipelineObject == << "pipeline", 0 >>

StreamObject == << "cs", 0 >>

\* the call after vk_object_zalloc; the compute create has already stored
\* VK_NULL_HANDLE (line 2594)
StartCreate(k, fault) ==
    [ fault |-> fault, result |-> "none",
      pPipeline |-> IF k = "compute" THEN "VK_NULL_HANDLE" ELSE "unset",
      live |-> { PipelineObject } ]

ShaderObjects(shaders) ==
    { << "shader", s >> : s \in { t \in DOMAIN shaders : shaders[t] # NULL } }

\* tu_pipeline_builder_finish (lines 2463-2471): every shader is destroyed
tu_pipeline_builder_finish(live, shaders) == live \ ShaderObjects(shaders)

\* the failure return: vk_object_free of the pipeline (lines 2427, 2433,
\* 2648), the shaders destroyed (lines 2547, 2645-2646), VK_NULL_HANDLE
\* (lines 2552, 2594)
FailCreate(c, shaders, result) ==
    [ c EXCEPT !.result = result,
               !.pPipeline = "VK_NULL_HANDLE",
               !.live = tu_pipeline_builder_finish(@ \ { PipelineObject }, shaders) ]

\* the binning variant (lines 2041-2056): the vertex variant itself when the
\* vertex shader has stream outputs or no reduced variant exists for the key
SelectBinningVariant_IgnoreStreamOut(vs, key, variants) ==
    IF ~ir3_has_binning_vs(key)
    THEN variants[MESA_SHADER_VERTEX]
    ELSE VariantOf(MESA_SHADER_VERTEX, TRUE)

SelectBinningVariant(vs, key, variants) ==
    IF vs.stream_output_num_outputs # 0 \/ ~ir3_has_binning_vs(key)
    THEN variants[MESA_SHADER_VERTEX]
    ELSE VariantOf(MESA_SHADER_VERTEX, TRUE)

(***************************************************************************)
(* tu_pipeline_builder_compile_shaders (lines 1963-2059): a shader for     *)
(* every stage of the create-info and always for the fragment stage, a     *)
(* variant for every shader, and the binning variant.  With the fault      *)
(* "shader" the fragment shader, the last one, is not created.             *)
(***************************************************************************)
tu_pipeline_builder_compile_shaders ==
    /\ pc = "compile_shaders"
    /\ kind = "graphics"
    /\ LET ci == builder.create_info
           shaders == [ s \in 0 .. MESA_SHADER_STAGES - 1 |->
                          IF s \in ci.stages \/ s = MESA_SHADER_FRAGMENT
                          THEN ShaderOf(s, ci.desc_sets[s],
                                        IF s = MESA_SHADER_VERTEX THEN ci.vs_stream_outputs ELSE 0)
                          ELSE NULL ]
           key == [ has_gs |-> MESA_SHADER_GEOMETRY \in ci.stages ]
           variants == [ s \in 0 .. MESA_SHADER_STAGES - 1 |->
                           IF shaders[s] = NULL THEN NULL ELSE VariantOf(s, FALSE) ]
           vs == shaders[MESA_SHADER_VERTEX]
           variant == SelectBinningVariant(vs, key, variants)
           created == IF create.fault = "shader"
                      THEN [ shaders EXCEPT ![MESA_SHADER_FRAGMENT] = NULL ]
                      ELSE shaders
       IN  IF create.fault \in { "shader", "variant" }
           THEN /\ builder' = [ builder EXCEPT !.shaders = created ]
                /\ create' = FailCreate([ create EXCEPT !.live = @ \cup ShaderObjects(created) ],
                                        created, "VK_ERROR_OUT_OF_HOST_MEMORY")
                /\ pc' = "returned"
           ELSE /\ builder' = [ builder EXCEPT !.shaders = shaders,
                                               !.variants = variants,
                                               !.binning_variant = variant ]
                /\ create' = [ create EXCEPT !.live = @ \cup ShaderObjects(shaders) ]
                /\ pc' = "allocate_cs"
    /\ UNCHANGED << kind, pipeline, alloc, load_cs, vpc, linkage, vpc_out, cmd, regs >>

(***************************************************************************)
(* tu_compute_pipeline_create up to the allocation (lines 2596-2623): the  *)
(* shader, the pipeline's active sets, the variant.                        *)
(***************************************************************************)
tu_compute_pipeline_create_resolve ==
    /\ pc = "compile_shaders"
    /\ kind = "compute"
    /\ LET ci == builder.create_info
           shader == ShaderOf(MESA_SHADER_COMPUTE, ci.desc_sets[MESA_SHADER_COMPUTE], 0)
           b1 == [ builder EXCEPT !.shaders[MESA_SHADER_COMPUTE] = shader ]
       IN  CASE create.fault = "shader" ->
                  /\ UNCHANGED << builder, pipeline >>
                  /\ create' = FailCreate(create, builder.shaders, "VK_ERROR_OUT_OF_HOST_MEMORY")
                  /\ pc' = "returned"
             [] create.fault = "variant" ->
                  /\ builder' = b1
                  /\ pipeline' = [ pipeline EXCEPT !.active_desc_sets = shader.active_desc_sets ]
                  /\ create' = FailCreate([ create EXCEPT !.live = @ \cup ShaderObjects(b1.shaders) ],
                                          b1.shaders, "VK_ERROR_OUT_OF_HOST_MEMORY")
                  /\ pc' = "returned"
             [] OTHER ->
                  /\ builder' = [ b1 EXCEPT !.variants[MESA_SHADER_COMPUTE] =
                                              VariantOf(MESA_SHADER_COMPUTE, FALSE) ]
                  /\ pipeline' = [ pipeline EXCEPT !.active_desc_sets = shader.active_desc_sets ]
                  /\ create' = [ create EXCEPT !.live = @ \cup ShaderObjects(b1.shaders) ]
                  /\ pc' = "allocate_cs"
    /\ UNCHANGED << kind, alloc, load_cs, vpc, linkage, vpc_out, cmd, regs >>

(***************************************************************************)
(* tu_pipeline_allocate_cs (lines 1865-1892).                              *)
(***************************************************************************)
RECURSIVE SumSizedwords(_, _)
\* the loop of lines 1875-1878 from stage i on
SumSizedwords(variants, i) ==
    IF i >= MESA_SHADER_STAGES THEN 0
    ELSE (IF variants[i] # NULL THEN variants[i].sizedwords ELSE 0)
         + SumSizedwords(variants, i + 1)

\* mutant of AllocateCsSize: the binning variant's binary is not counted
AllocateCsSize_NoBinning(p, b, is_graphics) ==
    CS_HEADER_MARGIN + tu6_load_state_size(p, ~is_graphics)
    + (IF is_graphics
       THEN SumSizedwords(b.variants, 0)
       ELSE b.variants[MESA_SHADER_COMPUTE].sizedwords)

\* the `size` tu_pipeline_allocate_cs computes; is_graphics is `builder != NULL`,
\* and the sizer's `compute` argument is the compute variant pointer, non-null
\* exactly in a compute build
AllocateCsSize(p, b, is_graphics) ==
    CS_HEADER_MARGIN + tu6_load_state_size(p, ~is_graphics)
    + (IF is_graphics
       THEN SumSizedwords(b.variants, 0) + b.binning_variant.sizedwords
       ELSE b.variants[MESA_SHADER_COMPUTE].sizedwords)

tu_pipeline_allocate_cs ==
    /\ pc = "allocate_cs"
    /\ LET size == AllocateCsSize(pipeline, builder, kind = "graphics")
       IN  IF create.fault = "allocate"
           THEN \* tu_cs_reserve_space fails after tu_cs_init; the callers free
                \* the pipeline and the shaders and return (lines 2432-2436,
                \* 2625-2627, 2643-2650)
                /\ pipeline' = [ pipeline EXCEPT !.cs = tu_cs_init(size) ]
                /\ alloc' = alloc
                /\ create' = FailCreate([ create EXCEPT !.live = @ \cup { StreamObject } ],
                                        builder.shaders, "VK_ERROR_OUT_OF_DEVICE_MEMORY")
                /\ pc' = "returned"
           ELSE /\ pipeline' = [ pipeline EXCEPT
                                   !.cs = tu_cs_reserve_space(tu_cs_init(size), size) ]
                /\ alloc' = [ size |-> size,
                              load_state_size |-> tu6_load_state_size(pipeline, kind = "compute"),
                              done |-> TRUE ]
                /\ create' = [ create EXCEPT !.live = @ \cup { StreamObject } ]
                /\ pc' = "upload"
    /\ UNCHANGED << kind, builder, load_cs, vpc, linkage, vpc_out, cmd, regs >>

(***************************************************************************)
(* tu_upload_variant (lines 1944-1961) and the upload loops of             *)
(* tu_pipeline_builder_build (lines 2438-2442) / the compute create (2629).*)
(* An iova is the dword offset of the binary in the stream's buffer.       *)
(***************************************************************************)
\* a variant of tu_upload_variant that takes one dword more than the binary
tu_upload_variant_OneMore(cs, variant) ==
    IF variant = NULL THEN [ cs |-> cs, iova |-> 0 ]
    ELSE LET r == tu_cs_reserve_space(cs, variant.sizedwords + 1)
         IN  [ cs |-> tu_cs_carve(cs, variant.sizedwords + 1), iova |-> r.cur ]

tu_upload_variant(cs, variant) ==
    IF variant = NULL THEN [ cs |-> cs, iova |-> 0 ]
    ELSE LET r == tu_cs_reserve_space(cs, variant.sizedwords)
         IN  [ cs |-> tu_cs_carve(cs, variant.sizedwords), iova |-> r.cur ]

RECURSIVE UploadStages(_, _, _, _)
\* the loop of lines 2438-2439 from stage i on: the stream and iovas after it
UploadStages(cs, variants, iovas, i) ==
    IF i >= MESA_SHADER_STAGES THEN [ cs |-> cs, iovas |-> iovas ]
    ELSE LET u == tu_upload_variant(cs, variants[i])
         IN  UploadStages(u.cs, variants, [ iovas EXCEPT ![i] = u.iova ], i + 1)

upload_variants ==
    /\ pc = "upload"
    /\ IF kind = "graphics"
       THEN LET u == UploadStages(pipeline.cs, builder.variants, builder.shader_iova, 0)
                ub == tu_upload_variant(u.cs, builder.binning_variant)
            IN  /\ builder' = [ builder EXCEPT !.shader_iova = u.iovas,
                                               !.binning_vs_iova = ub.iova ]
                /\ pipeline' = [ pipeline EXCEPT !.cs = ub.cs ]
                /\ pc' = "parse_dynamic"
       ELSE LET u == tu_upload_variant(pipeline.cs, builder.variants[MESA_SHADER_COMPUTE])
            IN  /\ builder' = [ builder EXCEPT !.shader_iova[MESA_SHADER_COMPUTE] = u.iova ]
                /\ pipeline' = [ pipeline EXCEPT !.cs = u.cs ]
                /\ pc' = "compute_program"
    /\ UNCHANGED << kind, alloc, load_cs, vpc, linkage, vpc_out, cmd, regs, create >>

\* the program sub-stream of a compute pipeline (lines 2634-2637)
compute_program ==
    /\ pc = "compute_program"
    /\ \E used \in SubStreamUse(PROGRAM_CS_SIZE) :
          pipeline' = [ pipeline EXCEPT
                          !.cs = tu_cs_sub_stream(@, PROGRAM_CS_SIZE, used[1]),
                          !.program.state = used[1] ]
    /\ pc' = "emit_load_state"
    /\ UNCHANGED << kind, builder, alloc, load_cs, vpc, linkage, vpc_out, cmd, regs, create >>


(***************************************************************************)
(* tu_pipeline_builder_parse_dynamic (lines 2061-2085).                    *)
(***************************************************************************)
RECURSIVE ParseDynamicFrom(_, _, _)
\* the loop over pDynamicStates[i ..]; an unrecognised state hits
\* assert(!"unsupported dynamic state") and leaves the mask as it is
ParseDynamicFrom(mask, states, i) ==
    IF i > Len(states) THEN mask
    ELSE LET state == states[i]
             m == CASE state \in RangeDynamicStateSet -> mask \cup {state}
                    [] state = "SAMPLE_LOCATIONS_EXT" ->
                          mask \cup {"TU_DYNAMIC_STATE_SAMPLE_LOCATIONS"}
                    [] OTHER -> mask
         IN  ParseDynamicFrom(m, states, i + 1)

\* the states of a list that reach the default case (lines 2080-2082)
UnsupportedStates(states) ==
    { states[i] : i \in 1 .. Len(states) } \ (RangeDynamicStateSet \cup { "SAMPLE_LOCATIONS_EXT" })

\* what assert(!"unsupported dynamic state") does: it aborts in a build with
\* assertions and is no statement in a build with NDEBUG
AssertOutcomes(states) ==
    IF UnsupportedStates(states) = {} THEN { "pass" } ELSE { "abort", "NDEBUG" }

tu_pipeline_builder_parse_dynamic ==
    /\ pc = "parse_dynamic"
    /\ \E outcome \in AssertOutcomes(builder.create_info.dynamic_states) :
          IF outcome = "abort"
          THEN pipeline' = pipeline /\ pc' = "aborted"
          ELSE /\ pipeline' = [ pipeline EXCEPT !.dynamic_state_mask =
                                  ParseDynamicFrom(@, builder.create_info.dynamic_states, 1) ]
               /\ pc' = "parse_shader_stages"
    /\ UNCHANGED << kind, builder, alloc, load_cs, vpc, linkage, vpc_out, cmd, regs, create >>

(***************************************************************************)
(* tu_cs_draw_state and tu_pipeline_static_state (lines 2166-2177).        *)
(***************************************************************************)
tu_cs_draw_state(p, size) == [ p EXCEPT !.cs = tu_cs_carve(@, size) ]

\* TRUE when the state is baked: the id is not declared dynamic
IsStaticState(p, id) == id \notin p.dynamic_state_mask

\* a variant of tu_pipeline_static_state that takes the block for a dynamic
\* category as well
tu_pipeline_static_state_SlotAlways(p, id, size) ==
    [ tu_cs_draw_state(p, size) EXCEPT !.dynamic_state[id] = size ]

tu_pipeline_static_state(p, id, size) ==
    IF id \in p.dynamic_state_mask THEN p
    ELSE [ tu_cs_draw_state(p, size) EXCEPT !.dynamic_state[id] = size ]

(***************************************************************************)
(* tu_pipeline_builder_parse_shader_stages (lines 2097-2127).              *)
(***************************************************************************)
RECURSIVE UnionDescSets(_, _)
\* the loop of lines 2117-2125 from stage i on
UnionDescSets(shaders, i) ==
    IF i >= MESA_SHADER_STAGES THEN {}
    ELSE (IF shaders[i] = NULL THEN {} ELSE shaders[i].active_desc_sets)
         \cup UnionDescSets(shaders, i + 1)

\* the calls of tu6_emit_xs_config in tu6_emit_program (lines 1396-1409), by
\* stage: the variant (NULL: stage disabled) and the binary address given
tu6_emit_program(b, binning_pass) ==
    [ stage \in 0 .. MESA_SHADER_STAGES - 1 |->
        IF binning_pass /\ b.variants[MESA_SHADER_GEOMETRY] = NULL
           /\ stage = MESA_SHADER_VERTEX
        THEN [ xs |-> b.binning_variant, binary_iova |-> b.binning_vs_iova ]
        ELSE [ xs |-> IF stage = MESA_SHADER_FRAGMENT /\ binning_pass
                      THEN NULL ELSE b.variants[stage],
               binary_iova |-> b.shader_iova[stage] ] ]

tu_pipeline_builder_parse_shader_stages ==
    /\ pc = "parse_shader_stages"
    /\ \E used \in SubStreamUse(PROGRAM_CS_SIZE) :
          pipeline' = [ pipeline EXCEPT
              !.cs = tu_cs_sub_stream(tu_cs_sub_stream(@, PROGRAM_CS_SIZE, used[1]),
                                      PROGRAM_CS_SIZE, used[2]),
              !.program = [ state |-> used[1], binning_state |-> used[2] ],
              !.active_stages = builder.create_info.stages,
              !.active_desc_sets = UnionDescSets(builder.shaders, 0) ]
    /\ regs' = [ program |-> tu6_emit_program(builder, FALSE),
                 binning_program |-> tu6_emit_program(builder, TRUE) ]
    /\ pc' = "parse_vertex_input"
    /\ UNCHANGED << kind, builder, alloc, load_cs, vpc, linkage, vpc_out, cmd, create >>

(***************************************************************************)
(* tu_pipeline_builder_parse_vertex_input (lines 2129-2153).               *)
(***************************************************************************)
VertexInputCsSize == MAX_VERTEX_ATTRIBS * 7 + 2

tu_pipeline_builder_parse_vertex_input ==
    /\ pc = "parse_vertex_input"
    /\ \E used \in SubStreamUse(VertexInputCsSize) :
          LET p1 == [ pipeline EXCEPT
                        !.cs = tu_cs_sub_stream(@, VertexInputCsSize, used[1]),
                        !.vi.state = used[1] ]
          IN  pipeline' = IF builder.binning_variant # NULL
                          THEN [ p1 EXCEPT
                                   !.cs = tu_cs_sub_stream(@, VertexInputCsSize, used[2]),
                                   !.vi.binning_state = used[2] ]
                          ELSE p1
    /\ pc' = "parse_viewport"
    /\ UNCHANGED << kind, builder, alloc, load_cs, vpc, linkage, vpc_out, cmd, regs, create >>

(***************************************************************************)
(* tu_pipeline_builder_parse_viewport (lines 2203-2228).                   *)
(***************************************************************************)
tu_pipeline_builder_parse_viewport ==
    /\ pc = "parse_viewport"
    /\ pipeline' = IF builder.rasterizer_discard THEN pipeline
                   ELSE tu_pipeline_static_state(
                            tu_pipeline_static_state(pipeline, "VIEWPORT", 18),
                            "SCISSOR", 3)
    /\ pc' = "parse_rasterization"
    /\ UNCHANGED << kind, builder, alloc, load_cs, vpc, linkage, vpc_out, cmd, regs, create >>

(***************************************************************************)
(* tu_pipeline_builder_parse_rasterization (lines 2230-2284).              *)
(***************************************************************************)
tu_pipeline_builder_parse_rasterization ==
    /\ pc = "parse_rasterization"
    /\ LET p1 == [ tu_cs_draw_state(pipeline, 9) EXCEPT !.rast_state = 9 ]
       IN  pipeline' = tu_pipeline_static_state(
                           tu_pipeline_static_state(p1, "LINE_WIDTH", 2),
                           "DEPTH_BIAS", 4)
    /\ pc' = "parse_depth_stencil"
    /\ UNCHANGED << kind, builder, alloc, load_cs, vpc, linkage, vpc_out, cmd, regs, create >>

(***************************************************************************)
(* tu_pipeline_builder_parse_depth_stencil (lines 2286-2340).              *)
(***************************************************************************)
tu_pipeline_builder_parse_depth_stencil ==
    /\ pc = "parse_depth_stencil"
    /\ LET p1 == [ tu_cs_draw_state(pipeline, 6) EXCEPT !.ds_state = 6 ]
           p2 == tu_pipeline_static_state(p1, "DEPTH_BOUNDS", 3)
           p3 == tu_pipeline_static_state(p2, "STENCIL_COMPARE_MASK", 2)
           p4 == tu_pipeline_static_state(p3, "STENCIL_WRITE_MASK", 2)
       IN  pipeline' = tu_pipeline_static_state(p4, "STENCIL_REFERENCE", 2)
    /\ pc' = "parse_multisample_and_color_blend"
    /\ UNCHANGED << kind, builder, alloc, load_cs, vpc, linkage, vpc_out, cmd, regs, create >>

(***************************************************************************)
(* tu_pipeline_builder_parse_multisample_and_color_blend (lines 2342-2402).*)
(* attachmentCount is that of the blend info in use (0 for the dummy one); *)
(* samp_loc tells whether explicit sample locations are enabled.           *)
(***************************************************************************)
AttachmentCounts == {0, 1, MAX_RTS}

tu_pipeline_builder_parse_multisample_and_color_blend ==
    /\ pc = "parse_multisample_and_color_blend"
    /\ IF builder.rasterizer_discard
       THEN pipeline' = pipeline
       ELSE \E attachmentCount \in AttachmentCounts, samp_loc \in BOOLEAN :
               LET p1 == [ tu_cs_draw_state(pipeline, attachmentCount * 3 + 4) EXCEPT
                             !.blend_state = attachmentCount * 3 + 4 ]
                   p2 == tu_pipeline_static_state(p1, "BLEND_CONSTANTS", 5)
               IN  pipeline' = tu_pipeline_static_state(
                                   p2, "TU_DYNAMIC_STATE_SAMPLE_LOCATIONS",
                                   IF samp_loc THEN 9 ELSE 6)
    /\ pc' = "emit_load_state"
    /\ UNCHANGED << kind, builder, alloc, load_cs, vpc, linkage, vpc_out, cmd, regs, create >>

(***************************************************************************)
(* Spec: a graphics build (tu_pipeline_builder_build, lines 2412-2461) or  *)
(* a compute build (tu_compute_pipeline_create, lines 2580-2651), from the *)
(* zero-allocated pipeline object to the finished pipeline.                *)
(***************************************************************************)
DynamicStateLists ==
    { << >>, << "SAMPLE_LOCATIONS_EXT" >>, << "VIEWPORT", "SCISSOR" >>,
      << "LINE_WIDTH" >>, << "STENCIL_REFERENCE", "BLEND_CONSTANTS" >>,
      RangeDynamicStates \o << "SAMPLE_LOCATIONS_EXT" >> }

StageSets ==
    { {MESA_SHADER_VERTEX, MESA_SHADER_FRAGMENT},
      {MESA_SHADER_VERTEX, MESA_SHADER_TESS_CTRL, MESA_SHADER_TESS_EVAL, MESA_SHADER_FRAGMENT},
      {MESA_SHADER_VERTEX, MESA_SHADER_GEOMETRY, MESA_SHADER_FRAGMENT} }

\* layouts of the build: one binding per set, visible to all stages or to the
\* compute stage, of array size 1 or BigArraySize; set 0 holds a combined
\* image sampler, a storage buffer, a dynamic uniform buffer or an input
\* attachment
BuildSeeds ==
    { seed \in Seeds : seed[1] \in {1, 7, 8, 10} /\ seed[2] \in {2, 3} /\ seed[3] \in {0, 1} }

\* the descriptor sets the shaders use: none, all, or only the last one
UsedSetChoices(ns) == { {}, 0 .. ns - 1, {ns - 1} }

GraphicsCreateInfos(ns) ==
    { [ stages |-> st,
        desc_sets |-> [ s \in 0 .. MESA_SHADER_STAGES - 1 |->
                          IF s = MESA_SHADER_VERTEX THEN used \cap {0}
                          ELSE IF s = MESA_SHADER_FRAGMENT THEN used \ {0}
                          ELSE {} ],
        vs_stream_outputs |-> so,
        dynamic_states |-> dyn,
        rasterizerDiscardEnable |-> discard ] :
      st \in StageSets, used \in UsedSetChoices(ns), so \in {0, 1},
      dyn \in DynamicStateLists, discard \in BOOLEAN }

ComputeCreateInfos(ns) ==
    { [ stages |-> {MESA_SHADER_COMPUTE},
        desc_sets |-> [ s \in 0 .. MESA_SHADER_STAGES - 1 |->
                          IF s = MESA_SHADER_COMPUTE THEN used ELSE {} ],
        vs_stream_outputs |-> 0,
        dynamic_states |-> << >>,
        rasterizerDiscardEnable |-> FALSE ] :
      used \in UsedSetChoices(ns) }

Init ==
    /\ pc = "compile_shaders"
    /\ kind \in {"compute", "graphics"}
    /\ \E seed \in BuildSeeds, ns \in 1 .. MaxSets :
         \E ci \in (IF kind = "graphics" THEN GraphicsCreateInfos(ns)
                    ELSE ComputeCreateInfos(ns)) :
            /\ ci.vs_stream_outputs = 0 \/ MESA_SHADER_GEOMETRY \notin ci.stages
            /\ pipeline = ZeroPipeline(SeedLayout(seed, ns, 1))
            /\ builder = InitBuilder(SeedLayout(seed, ns, 1), ci)
    /\ alloc = NoAlloc
    /\ load_cs = NoLoadCs
    /\ vpc = NoVpc
    /\ linkage = NoLinkage
    /\ vpc_out = NoVpcOut
    /\ cmd = NoCmd
    /\ regs = NoRegs
    /\ create = StartCreate(kind, "none")

Next ==
    \/ tu_pipeline_builder_compile_shaders
    \/ tu_compute_pipeline_create_resolve
    \/ tu_pipeline_allocate_cs
    \/ upload_variants
    \/ compute_program
    \/ tu_pipeline_builder_parse_dynamic
    \/ tu_pipeline_builder_parse_shader_stages
    \/ tu_pipeline_builder_parse_vertex_input
    \/ tu_pipeline_builder_parse_viewport
    \/ tu_pipeline_builder_parse_rasterization
    \/ tu_pipeline_builder_parse_depth_stencil
    \/ tu_pipeline_builder_parse_multisample_and_color_blend
    \/ tu6_emit_load_state

Spec == Init /\ [][Next]_vars

(***************************************************************************)
(* SpecCreate: the whole create call, with the faults it can meet and with *)
(* dynamic-state lists that name a state the driver does not know, from    *)
(* the zero-allocated pipeline object to the return.                       *)
(***************************************************************************)
\* the return of a build that succeeded: tu_pipeline_builder_finish and the
\* handle (lines 2547-2555) for graphics, the handle alone (lines 2641-2642)
\* for compute
tu_pipeline_create_return ==
    /\ pc = "built"
    /\ create' = [ create EXCEPT
                     !.result = "VK_SUCCESS",
                     !.pPipeline = "pipeline",
                     !.live = IF kind = "graphics"
                              THEN tu_pipeline_builder_finish(@, builder.shaders)
                              ELSE @ ]
    /\ pc' = "returned"
    /\ UNCHANGED << kind, pipeline, builder, alloc, load_cs, vpc, linkage, vpc_out, cmd, regs >>

UnsupportedLists ==
    { << >>, << "VIEWPORT_W_SCALING_NV" >>,
      << "VIEWPORT", "VIEWPORT_W_SCALING_NV", "SCISSOR" >> }

InitCreate ==
    /\ pc = "compile_shaders"
    /\ kind \in {"compute", "graphics"}
    /\ \E fault \in Faults :
         \E ci \in (IF kind = "graphics" THEN GraphicsCreateInfos(1)
                    ELSE ComputeCreateInfos(1)) :
            \E dyn \in (IF kind = "graphics" THEN UnsupportedLists ELSE { << >> }) :
               /\ ci.vs_stream_outputs = 0 \/ MESA_SHADER_GEOMETRY \notin ci.stages
               /\ ci.dynamic_states = << >>
               /\ fault # "none" => dyn = << >>
               /\ pipeline = ZeroPipeline(SeedLayout(<< 1, 3, 0 >>, 1, 1))
               /\ builder = InitBuilder(SeedLayout(<< 1, 3, 0 >>, 1, 1),
                                        [ ci EXCEPT !.dynamic_states = dyn ])
               /\ create = StartCreate(kind, fault)
    /\ alloc = NoAlloc
    /\ load_cs = NoLoadCs
    /\ vpc = NoVpc
    /\ linkage = NoLinkage
    /\ vpc_out = NoVpcOut
    /\ cmd = NoCmd
    /\ regs = NoRegs

NextCreate ==
    \/ tu_pipeline_builder_compile_shaders
    \/ tu_compute_pipeline_create_resolve
    \/ tu_pipeline_allocate_cs
    \/ upload_variants
    \/ compute_program
    \/ tu_pipeline_builder_parse_dynamic
    \/ tu_pipeline_builder_parse_shader_stages
    \/ tu_pipeline_builder_parse_vertex_input
    \/ tu_pipeline_builder_parse_viewport
    \/ tu_pipeline_builder_parse_rasterization
    \/ tu_pipeline_builder_parse_depth_stencil
    \/ tu_pipeline_builder_parse_multisample_and_color_blend
    \/ tu6_emit_load_state
    \/ tu_pipeline_create_return

SpecCreate == InitCreate /\ [][NextCreate]_vars

(***************************************************************************)
(* Claims about the stream's capacity during a build.                      *)
(***************************************************************************)
\* the dwords consumed by the shader binaries: what tu_pipeline_allocate_cs
\* adds to the margin and the prefetch size
UploadedDwords == alloc.size - CS_HEADER_MARGIN - alloc.load_state_size

RECURSIVE SumDynamicState(_, _)
SumDynamicState(p, ids) ==
    IF ids = {} THEN 0
    ELSE LET id == CHOOSE x \in ids : TRUE
         IN  p.dynamic_state[id] + SumDynamicState(p, ids \ {id})

\* the dwords of every sub-stream and draw-state block of the pipeline
BlockDwords(p) ==
    p.program.state + p.program.binning_state + p.vi.state + p.vi.binning_state
    + p.rast_state + p.ds_state + p.blend_state
    + SumDynamicState(p, DynamicStateIds) + p.load_state

\* the most a graphics build takes from the margin besides the load-state
\* block: two programs, two vertex-input blocks, viewport, scissor,
\* rasterization, line width, depth bias, depth/stencil, depth bounds, three
\* stencil values, blend for MAX_RTS attachments, blend constants, sample
\* locations
GraphicsFixedMax ==
    2 * PROGRAM_CS_SIZE + 2 * VertexInputCsSize + 18 + 3 + 9 + 2 + 4 + 6 + 3
    + 2 + 2 + 2 + (MAX_RTS * 3 + 4) + 5 + 9

\* C2 (as stated): once the stream is allocated, the dwords consumed from it
\* never exceed the capacity tu_pipeline_allocate_cs computed, and the stream
\* consists of exactly one buffer.
C2_Original ==
    alloc.done => /\ pipeline.cs.total <= alloc.size
                  /\ pipeline.cs.bo_count = 1

C4_Original ==
    pc \in {"emit_load_state", "built"} =>
        alloc.load_state_size = tu6_load_state_size(pipeline, kind = "compute")

(***************************************************************************)
(* The linkage map of tu6_emit_vpc (lines 800-894).                        *)
(*                                                                         *)
(* A shader variant's outputs are a sequence of [slot, regid]; C index k   *)
(* is element k + 1.  A fragment input is [slot, compmask, inloc, bary].   *)
(* A component mask is the set of its set bits.  A linkage entry is        *)
(* [regid, compmask, loc]; var[i] of the code is element i + 1 of var.     *)
(***************************************************************************)
regid(num, comp) == num * 4 + comp

util_last_bit(mask) == IF mask = {} THEN 0 ELSE (CHOOSE b \in mask : \A c \in mask : c <= b) + 1

\* ir3_find_output_regid: the register of the output in `slot`, regid(63, 0)
\* when the variant has no such output
ir3_find_output_regid(so, slot) ==
    IF \E k \in 1 .. Len(so.outputs) : so.outputs[k].slot = slot
    THEN so.outputs[CHOOSE k \in 1 .. Len(so.outputs) : so.outputs[k].slot = slot].regid
    ELSE regid(63, 0)

\* ir3_link_add: the locations of the mask are marked used, max_loc covers
\* them, and the entry is recorded unless the register is the invalid one
ir3_link_add(l, regid_, compmask, loc) ==
    LET marked == [ l EXCEPT
                      !.varmask = @ \cup { loc + j : j \in 0 .. util_last_bit(compmask) - 1 },
                      !.max_loc = Max2(@, loc + util_last_bit(compmask)) ]
    IN  IF regid_ # regid(63, 0)
        THEN [ marked EXCEPT !.cnt = @ + 1,
                             !.var = Append(@, [ regid |-> regid_, compmask |-> compmask,
                                                 loc |-> loc ]) ]
        ELSE marked

RECURSIVE LinkShadersFrom(_, _, _, _)
\* ir3_link_shaders from fragment input j on (j counts from 1): every
\* interpolated input with components is linked at its inloc to the register
\* of the producer's output in the same slot
LinkShadersFrom(l, vs, fs, j) ==
    IF j > Len(fs.inputs) THEN l
    ELSE LET in == fs.inputs[j]
         IN  IF in.compmask = {} \/ ~in.bary \/ in.inloc >= fs.total_in
             THEN LinkShadersFrom(l, vs, fs, j + 1)
             ELSE LinkShadersFrom(
                      ir3_link_add(l, ir3_find_output_regid(vs, in.slot),
                                   in.compmask, in.inloc),
                      vs, fs, j + 1)

ir3_link_shaders(l, vs, fs) == LinkShadersFrom(l, vs, fs, 1)

(***************************************************************************)
(* tu6_link_streamout (lines 552-595).                                     *)
(***************************************************************************)
\* a variant of NextLocStep that never advances
NextLocStep_Keep(nextloc, loc) == nextloc

\* line 579: nextloc = MAX2(nextloc, l->var[idx].loc + 4)
NextLocStep(nextloc, loc) == Max2(nextloc, loc + 4)

RECURSIVE FindEntry(_, _, _, _)
\* the search loop of lines 576-580 from idx on (idx counts from 0): where it
\* stops and the nextloc gathered so far
FindEntry(l, reg, idx, nextloc) ==
    IF idx >= l.cnt THEN [ idx |-> idx, nextloc |-> nextloc ]
    ELSE IF l.var[idx + 1].regid = reg THEN [ idx |-> idx, nextloc |-> nextloc ]
    ELSE FindEntry(l, reg, idx + 1, NextLocStep(nextloc, l.var[idx + 1].loc))

\* a variant of ExpandMask that stores the capture mask
ExpandMask_Replace(old, compmask) == compmask

\* line 590: l->var[idx].compmask |= compmask
ExpandMask(old, compmask) == old \cup compmask

\* the body of the loop of lines 563-594 for one captured output
LinkStreamOutput(l, v, out) ==
    LET compmask == 0 .. (out.num_components + out.start_component - 1)
        k == out.register_index
        slot == v.outputs[k + 1].slot
        reg == v.outputs[k + 1].regid
        f == FindEntry(l, reg, 0, 0)
        added == IF f.idx = l.cnt THEN ir3_link_add(l, reg, compmask, f.nextloc) ELSE l
        e == added.var[f.idx + 1]
    IN  IF slot \in {"VARYING_SLOT_PSIZ", "VARYING_SLOT_POS"} THEN l
        ELSE IF compmask \ e.compmask # {}
        THEN [ added EXCEPT
                 !.var[f.idx + 1].compmask = ExpandMask(e.compmask, compmask),
                 !.max_loc = Max2(@, e.loc + util_last_bit(ExpandMask(e.compmask, compmask))) ]
        ELSE added

RECURSIVE LinkStreamoutFrom(_, _, _)
LinkStreamoutFrom(l, v, i) ==
    IF i > Len(v.stream_output) THEN l
    ELSE LinkStreamoutFrom(LinkStreamOutput(l, v, v.stream_output[i]), v, i + 1)

tu6_link_streamout(l, v) == LinkStreamoutFrom(l, v, 1)

(***************************************************************************)
(* tu6_emit_vpc: the special outputs (lines 819-843), the dummy output     *)
(* (lines 852-853) and the output count (line 893).                        *)
(***************************************************************************)
\* a variant of SpecialLoc that takes the entry count for the location
SpecialLoc_Count(l) == l.cnt

\* the location a special output is given: linkage.max_loc
SpecialLoc(l) == l.max_loc

\* one of the three blocks of lines 831-842: [l, loc] after it
AddSpecial(l, regid_, compmask) ==
    IF regid_ # regid(63, 0)
    THEN [ l |-> ir3_link_add(l, regid_, compmask, SpecialLoc(l)), loc |-> SpecialLoc(l) ]
    ELSE [ l |-> l, loc |-> 255 ]

\* a variant of NeedsDummy that never asks for the dummy output
NeedsDummy_Never(l) == FALSE

\* line 852
NeedsDummy(l) == l.cnt = 0

tu6_emit_vpc ==
    /\ pc = "emit_vpc"
    /\ LET last_shader == vpc.last_shader
           fs == vpc.fs
           linked == IF fs # NULL THEN ir3_link_shaders(NoLinkage, last_shader, fs)
                     ELSE NoLinkage
           streamed == IF Len(last_shader.stream_output) # 0
                       THEN tu6_link_streamout(linked, last_shader)
                       ELSE linked
           position_regid == ir3_find_output_regid(last_shader, "VARYING_SLOT_POS")
           pointsize_regid == ir3_find_output_regid(last_shader, "VARYING_SLOT_PSIZ")
           layer_regid == ir3_find_output_regid(last_shader, "VARYING_SLOT_LAYER")
           a1 == AddSpecial(streamed, layer_regid, {0})
           a2 == AddSpecial(a1.l, position_regid, {0, 1, 2, 3})
           a3 == AddSpecial(a2.l, pointsize_regid, {0})
           final == IF NeedsDummy(a3.l) THEN ir3_link_add(a3.l, 0, {0}, a3.l.max_loc)
                    ELSE a3.l
       IN  /\ linkage' = final
           /\ vpc_out' = [ done |-> TRUE,
                           linked |-> linked,          \* after ir3_link_shaders
                           streamed |-> streamed,      \* after tu6_link_streamout
                           specials |-> a3.l,          \* after the special outputs
                           layer_loc |-> a1.loc,
                           position_loc |-> a2.loc,
                           pointsize_loc |-> a3.loc,
                           primitive_cntl_out |-> final.cnt ]
    /\ pc' = "vpc_done"
    /\ UNCHANGED << kind, pipeline, builder, alloc, load_cs, vpc, cmd, regs, create >>

(***************************************************************************)
(* SpecVpc: tu6_emit_vpc on a drawn last geometry stage (which special     *)
(* outputs and how many generic varyings it writes, what it captures) and  *)
(* a drawn fragment stage (absent in the binning pass).                    *)
(***************************************************************************)
VarSlots ==
    << "VARYING_SLOT_VAR0", "VARYING_SLOT_VAR1", "VARYING_SLOT_VAR2", "VARYING_SLOT_VAR3" >>

\* the elements of seq that satisfy keep, in order
RECURSIVE SelectFrom(_, _, _)
SelectFrom(seq, keep, i) ==
    IF i > Len(seq) THEN << >>
    ELSE (IF keep[i] THEN << seq[i] >> ELSE << >>) \o SelectFrom(seq, keep, i + 1)

\* the outputs of the last geometry stage; output k lives in register rk.x
OutputsOf(has_pos, has_psiz, has_layer, nvar) ==
    LET slots == SelectFrom(<< "VARYING_SLOT_POS", "VARYING_SLOT_PSIZ", "VARYING_SLOT_LAYER" >>,
                            << has_pos, has_psiz, has_layer >>, 1)
                 \o SubSeq(VarSlots, 1, nvar)
    IN  [ k \in 1 .. Len(slots) |-> [ slot |-> slots[k], regid |-> regid(k - 1, 0) ] ]

\* what a stream-out declaration may capture: (start_component, num_components)
CapturePatterns == << << 0, 1 >>, << 1, 2 >>, << 0, 4 >> >>

\* n captured outputs, beginning with output k and pattern p
StreamOutputsOf(noutputs, n, k, p) ==
    [ i \in 1 .. n |->
        [ register_index |-> (k + i - 1) % noutputs,
          start_component |-> CapturePatterns[((p + i - 1) % Len(CapturePatterns)) + 1][1],
          num_components |-> CapturePatterns[((p + i - 1) % Len(CapturePatterns)) + 1][2] ] ]

\* the component masks a fragment input may have: .x or .xw
InputMasks == { {0}, {0, 3} }

RECURSIVE InputsFrom(_, _, _)
\* the fragment inputs for the masks chosen per generic varying ({} = not
\* read), packed at consecutive inlocs from inloc on
InputsFrom(masks, n, inloc) ==
    IF n > Len(masks) THEN << >>
    ELSE IF masks[n] = {} THEN InputsFrom(masks, n + 1, inloc)
    ELSE << [ slot |-> VarSlots[n], compmask |-> masks[n], inloc |-> inloc, bary |-> TRUE ] >>
         \o InputsFrom(masks, n + 1, inloc + util_last_bit(masks[n]))

RECURSIVE TotalIn(_, _)
TotalIn(inputs, j) ==
    IF j > Len(inputs) THEN 0
    ELSE util_last_bit(inputs[j].compmask) + TotalIn(inputs, j + 1)

FragmentShaders ==
    {NULL} \cup
    { [ inputs |-> InputsFrom(masks, 1, 0), total_in |-> TotalIn(InputsFrom(masks, 1, 0), 1) ] :
        masks \in [ 1 .. MaxVaryings -> InputMasks \cup {{}} ] }

InitVpc ==
    /\ pc = "emit_vpc"
    /\ kind = "graphics"
    /\ \E has_pos \in BOOLEAN, has_psiz \in BOOLEAN, has_layer \in BOOLEAN,
          nvar \in 0 .. MaxVaryings, fs \in FragmentShaders, n \in 0 .. MaxStreamOutputs :
         LET outputs == OutputsOf(has_pos, has_psiz, has_layer, nvar)
         IN  /\ n > 0 => Len(outputs) > 0
             /\ \E k \in 0 .. Max2(Len(outputs), 1) - 1, p \in 0 .. Len(CapturePatterns) - 1 :
                   /\ n = 0 => (k = 0 /\ p = 0)
                   /\ vpc = [ last_shader |->
                                [ outputs |-> outputs,
                                  stream_output |->
                                     StreamOutputsOf(Len(outputs), n, k, p) ],
                              fs |-> fs ]
    /\ pipeline = ZeroPipeline(SeedLayout(<< 0, 0, 0 >>, 1, 1))
    /\ builder = NoBuilder
    /\ alloc = NoAlloc
    /\ load_cs = NoLoadCs
    /\ linkage = NoLinkage
    /\ vpc_out = NoVpcOut
    /\ cmd = NoCmd
    /\ regs = NoRegs
    /\ create = NoCreate

NextVpc == tu6_emit_vpc

SpecVpc == InitVpc /\ [][NextVpc]_vars

(***************************************************************************)
(* Claims about the linkage map.                                           *)
(***************************************************************************)
Locs(l, from, to) == { l.var[i].loc : i \in from .. to }

\* the captured outputs tu6_link_streamout links: all but position and
\* point size
LinkedCaptures(v) ==
    { i \in 1 .. Len(v.stream_output) :
        v.outputs[v.stream_output[i].register_index + 1].slot
            \notin {"VARYING_SLOT_PSIZ", "VARYING_SLOT_POS"} }

CaptureRegid(v, i) == v.outputs[v.stream_output[i].register_index + 1].regid

CaptureMask(v, i) ==
    0 .. (v.stream_output[i].num_components + v.stream_output[i].start_component - 1)

\* every component captured from register reg
CapturedOf(v, reg) ==
    UNION { CaptureMask(v, i) : i \in { c \in LinkedCaptures(v) : CaptureRegid(v, c) = reg } }

\* C7: in the linkage map tu6_emit_vpc emits, no two entries have the same
\* packed location.
C7_LinkageLocationsDistinct ==
    pc = "vpc_done" =>
        \A i, j \in 1 .. linkage.cnt : i # j => linkage.var[i].loc # linkage.var[j].loc

\* fragment-consumed, captured-only and special entries in one map
C7_Witness ==
    /\ pc = "vpc_done"
    /\ vpc_out.linked.cnt >= 2
    /\ vpc_out.streamed.cnt > vpc_out.linked.cnt
    /\ vpc_out.specials.cnt >= vpc_out.streamed.cnt + 2

\* the special outputs the last stage writes, in the order given by slots
SpecialsWritten(v, slots) ==
    SelectFrom(slots,
               [ n \in 1 .. Len(slots) |-> ir3_find_output_regid(v, slots[n]) # regid(63, 0) ],
               1)

\* the entries appended after tu6_link_streamout are exactly the special
\* outputs the stage writes, in the order of slots, at increasing locations
\* above every earlier entry
SpecialsAppendedInOrder(slots) ==
    LET v == vpc.last_shader
        before == vpc_out.streamed
        after == vpc_out.specials
        written == SpecialsWritten(v, slots)
    IN  /\ after.cnt = before.cnt + Len(written)
        /\ SubSeq(after.var, 1, before.cnt) = before.var
        /\ \A n \in 1 .. Len(written) :
              LET e == after.var[before.cnt + n]
              IN  /\ e.regid = ir3_find_output_regid(v, written[n])
                  /\ e.compmask = IF written[n] = "VARYING_SLOT_POS" THEN {0, 1, 2, 3} ELSE {0}
                  /\ \A x \in Locs(after, 1, before.cnt + n - 1) : x < e.loc

\* C8 (as stated): position, point size and layer are appended after the
\* fragment-consumed and stream-out entries in the order position, point
\* size, layer, at increasing locations above every earlier entry; an output
\* the stage does not write is skipped.
C8_Original ==
    pc = "vpc_done" =>
        SpecialsAppendedInOrder(<< "VARYING_SLOT_POS", "VARYING_SLOT_PSIZ", "VARYING_SLOT_LAYER" >>)

\* C8 (amended): the special outputs are appended after the fragment-consumed
\* and stream-out entries in the order layer, position, point size, at
\* increasing locations above every earlier entry, and these are the
\* locations programmed for them; an output the stage does not write is
\* skipped and its programmed location is 0xff.
C8_SpecialsLayerPositionPointSize ==
    pc = "vpc_done" =>
        /\ SpecialsAppendedInOrder(<< "VARYING_SLOT_LAYER", "VARYING_SLOT_POS", "VARYING_SLOT_PSIZ" >>)
        /\ LET v == vpc.last_shader
               progd == << vpc_out.layer_loc, vpc_out.position_loc, vpc_out.pointsize_loc >>
               slots == << "VARYING_SLOT_LAYER", "VARYING_SLOT_POS", "VARYING_SLOT_PSIZ" >>
           IN  \A n \in 1 .. 3 :
                  LET reg == ir3_find_output_regid(v, slots[n])
                  IN  IF reg = regid(63, 0) THEN progd[n] = 255
                      ELSE \E i \in vpc_out.streamed.cnt + 1 .. vpc_out.specials.cnt :
                              /\ vpc_out.specials.var[i].regid = reg
                              /\ vpc_out.specials.var[i].loc = progd[n]

\* all three special outputs written, after two fragment-consumed entries
C8_Witness ==
    /\ pc = "vpc_done"
    /\ vpc_out.streamed.cnt >= 2
    /\ vpc_out.specials.cnt = vpc_out.streamed.cnt + 3
    /\ vpc_out.layer_loc < vpc_out.position_loc
    /\ vpc_out.position_loc < vpc_out.pointsize_loc
    /\ vpc_out.pointsize_loc < 255

\* C9: tu6_link_streamout keeps the register and location of every entry
\* already in the map and only ORs the captured components into its mask; an
\* entry it appends is for a captured output other than position and point
\* size that was not linked, carries the captured components, and lies above
\* the location of every entry before it.
C9_StreamoutFrame ==
    pc = "vpc_done" =>
        LET v == vpc.last_shader
            before == vpc_out.linked
            after == vpc_out.streamed
        IN  /\ after.cnt >= before.cnt
            /\ \A i \in 1 .. before.cnt :
                  /\ after.var[i].regid = before.var[i].regid
                  /\ after.var[i].loc = before.var[i].loc
                  /\ after.var[i].compmask =
                        before.var[i].compmask \cup CapturedOf(v, before.var[i].regid)
            /\ \A i \in before.cnt + 1 .. after.cnt :
                  /\ \E c \in LinkedCaptures(v) : CaptureRegid(v, c) = after.var[i].regid
                  /\ \A j \in 1 .. before.cnt : before.var[j].regid # after.var[i].regid
                  /\ after.var[i].compmask = CapturedOf(v, after.var[i].regid)
                  /\ \A x \in Locs(after, 1, i - 1) : x < after.var[i].loc

\* one capture widened a linked entry and another appended a new one
C9_Witness ==
    /\ pc = "vpc_done"
    /\ \E i \in 1 .. vpc_out.linked.cnt :
          vpc_out.streamed.var[i].compmask # vpc_out.linked.var[i].compmask
    /\ vpc_out.streamed.cnt > vpc_out.linked.cnt

\* C10: the output count tu6_emit_vpc programs is never zero: when no entry
\* was linked, exactly one dummy entry with a one-component mask is added,
\* and none is added when an entry exists.
C10_OutputCountNeverZero ==
    pc = "vpc_done" =>
        /\ vpc_out.primitive_cntl_out = linkage.cnt
        /\ vpc_out.primitive_cntl_out >= 1
        /\ vpc_out.specials.cnt = 0 =>
              /\ linkage.cnt = 1
              /\ Cardinality(linkage.var[1].compmask) = 1
              /\ linkage.var[1].loc = vpc_out.specials.max_loc
        /\ vpc_out.specials.cnt > 0 => linkage = vpc_out.specials

\* nothing linked although the fragment stage reads a varying: the dummy
\* entry is the only one
C10_Witness ==
    /\ pc = "vpc_done"
    /\ vpc_out.specials.cnt = 0
    /\ linkage.cnt = 1
    /\ vpc.fs # NULL
    /\ vpc_out.specials.max_loc > 0

(***************************************************************************)
(* Colour blend state: the helpers of lines 269-326, the per-attachment    *)
(* registers (lines 1745-1837), the blend-control registers (lines         *)
(* 1839-1863), the dual-source bit of tu6_emit_fs_outputs (lines 1268-1290)*)
(* and what tu_pipeline_builder_init_graphics derives (lines 2491-2529).   *)
(*                                                                         *)
(* A register is a record of its fields; the all-zero register has every   *)
(* flag FALSE and every enumerated field at its zero value.  A format is   *)
(* "VK_FORMAT_UNDEFINED" or one of Formats.                                *)
(***************************************************************************)
Formats ==
    { "VK_FORMAT_R8G8B8A8_UNORM", "VK_FORMAT_B10G11R11_UFLOAT_PACK32",
      "VK_FORMAT_R32_UINT", "VK_FORMAT_R8G8B8A8_SINT" }

vk_format_is_int(format) == format \in { "VK_FORMAT_R32_UINT", "VK_FORMAT_R8G8B8A8_SINT" }

vk_format_has_alpha(format) == format \in { "VK_FORMAT_R8G8B8A8_UNORM", "VK_FORMAT_R8G8B8A8_SINT" }

\* tu_logic_op_reads_dst (lines 269-281)
tu_logic_op_reads_dst(op) ==
    op \notin { "VK_LOGIC_OP_CLEAR", "VK_LOGIC_OP_COPY", "VK_LOGIC_OP_COPY_INVERTED",
                "VK_LOGIC_OP_SET" }

\* tu_blend_factor_no_dst_alpha (lines 283-295)
tu_blend_factor_no_dst_alpha(factor) ==
    CASE factor = "VK_BLEND_FACTOR_DST_ALPHA" -> "VK_BLEND_FACTOR_ONE"
      [] factor = "VK_BLEND_FACTOR_ONE_MINUS_DST_ALPHA" -> "VK_BLEND_FACTOR_ZERO"
      [] OTHER -> factor

\* tu_blend_factor_is_dual_src (lines 297-308)
tu_blend_factor_is_dual_src(factor) ==
    factor \in { "VK_BLEND_FACTOR_SRC1_COLOR", "VK_BLEND_FACTOR_ONE_MINUS_SRC1_COLOR",
                 "VK_BLEND_FACTOR_SRC1_ALPHA", "VK_BLEND_FACTOR_ONE_MINUS_SRC1_ALPHA" }

\* a variant of tu_blend_state_is_dual_src that looks at the colour factors only
tu_blend_state_is_dual_src_ColorOnly(info) ==
    /\ info # NULL
    /\ \E i \in 1 .. Len(info.pAttachments) :
          \/ tu_blend_factor_is_dual_src(info.pAttachments[i].srcColorBlendFactor)
          \/ tu_blend_factor_is_dual_src(info.pAttachments[i].dstColorBlendFactor)

\* tu_blend_state_is_dual_src (lines 310-326)
tu_blend_state_is_dual_src(info) ==
    /\ info # NULL
    /\ \E i \in 1 .. Len(info.pAttachments) :
          \/ tu_blend_factor_is_dual_src(info.pAttachments[i].srcColorBlendFactor)
          \/ tu_blend_factor_is_dual_src(info.pAttachments[i].dstColorBlendFactor)
          \/ tu_blend_factor_is_dual_src(info.pAttachments[i].srcAlphaBlendFactor)
          \/ tu_blend_factor_is_dual_src(info.pAttachments[i].dstAlphaBlendFactor)

\* tu6_blend_factor: the hardware's name of a blend factor
tu6_blend_factor(factor) ==
    CASE factor = "VK_BLEND_FACTOR_ZERO" -> "FACTOR_ZERO"
      [] factor = "VK_BLEND_FACTOR_ONE" -> "FACTOR_ONE"
      [] factor = "VK_BLEND_FACTOR_SRC_ALPHA" -> "FACTOR_SRC_ALPHA"
      [] factor = "VK_BLEND_FACTOR_DST_COLOR" -> "FACTOR_DST_COLOR"
      [] factor = "VK_BLEND_FACTOR_DST_ALPHA" -> "FACTOR_DST_ALPHA"
      [] factor = "VK_BLEND_FACTOR_ONE_MINUS_DST_ALPHA" -> "FACTOR_ONE_MINUS_DST_ALPHA"
      [] factor = "VK_BLEND_FACTOR_SRC1_COLOR" -> "FACTOR_SRC1_COLOR"
      [] factor = "VK_BLEND_FACTOR_ONE_MINUS_SRC1_ALPHA" -> "FACTOR_ONE_MINUS_SRC1_ALPHA"

\* tu6_blend_op and tu6_rop: the hardware's names of a blend op and a logic op
tu6_blend_op(op) ==
    CASE op = "VK_BLEND_OP_ADD" -> "BLEND_DST_PLUS_SRC"
      [] op = "VK_BLEND_OP_MAX" -> "BLEND_MAX_DST_SRC"

tu6_rop(op) ==
    CASE op = "VK_LOGIC_OP_CLEAR" -> "ROP_CLEAR"
      [] op = "VK_LOGIC_OP_COPY" -> "ROP_COPY"
      [] op = "VK_LOGIC_OP_XOR" -> "ROP_XOR"

\* the value 0 of RB_MRT_BLEND_CONTROL and of RB_MRT_CONTROL
ZeroMrtBlendControl ==
    [ rgb_src_factor |-> "FACTOR_ZERO", rgb_blend_opcode |-> "BLEND_DST_PLUS_SRC",
      rgb_dest_factor |-> "FACTOR_ZERO", alpha_src_factor |-> "FACTOR_ZERO",
      alpha_blend_opcode |-> "BLEND_DST_PLUS_SRC", alpha_dest_factor |-> "FACTOR_ZERO" ]

ZeroMrtControl ==
    [ component_enable |-> {}, rop_enable |-> FALSE, rop_code |-> "ROP_CLEAR",
      blend |-> FALSE, blend2 |-> FALSE ]

\* a variant of tu6_rb_mrt_blend_control that never replaces a factor
tu6_rb_mrt_blend_control_AsRequested(att, has_alpha) ==
    [ rgb_src_factor |-> tu6_blend_factor(att.srcColorBlendFactor),
      rgb_blend_opcode |-> tu6_blend_op(att.colorBlendOp),
      rgb_dest_factor |-> tu6_blend_factor(att.dstColorBlendFactor),
      alpha_src_factor |-> tu6_blend_factor(att.srcAlphaBlendFactor),
      alpha_blend_opcode |-> tu6_blend_op(att.alphaBlendOp),
      alpha_dest_factor |-> tu6_blend_factor(att.dstAlphaBlendFactor) ]

\* tu6_rb_mrt_blend_control (lines 1745-1768)
tu6_rb_mrt_blend_control(att, has_alpha) ==
    [ rgb_src_factor |-> tu6_blend_factor(
          IF has_alpha THEN att.srcColorBlendFactor
          ELSE tu_blend_factor_no_dst_alpha(att.srcColorBlendFactor)),
      rgb_blend_opcode |-> tu6_blend_op(att.colorBlendOp),
      rgb_dest_factor |-> tu6_blend_factor(
          IF has_alpha THEN att.dstColorBlendFactor
          ELSE tu_blend_factor_no_dst_alpha(att.dstColorBlendFactor)),
      alpha_src_factor |-> tu6_blend_factor(att.srcAlphaBlendFactor),
      alpha_blend_opcode |-> tu6_blend_op(att.alphaBlendOp),
      alpha_dest_factor |-> tu6_blend_factor(att.dstAlphaBlendFactor) ]

\* tu6_rb_mrt_control (lines 1770-1795); rop is the [enable, code] pair the
\* caller prepared, both zero when logicOpEnable is off
tu6_rb_mrt_control_BlendAlways(att, rb_mrt_control_rop, is_int, has_alpha) ==
    IF is_int
    THEN [ ZeroMrtControl EXCEPT !.component_enable = att.colorWriteMask,
                                 !.rop_code = "ROP_COPY" ]
    ELSE [ component_enable |-> att.colorWriteMask,
           rop_enable |-> rb_mrt_control_rop.rop_enable,
           rop_code |-> rb_mrt_control_rop.rop_code,
           blend |-> TRUE,
           blend2 |-> has_alpha ]

tu6_rb_mrt_control(att, rb_mrt_control_rop, is_int, has_alpha) ==
    IF is_int
    THEN [ ZeroMrtControl EXCEPT !.component_enable = att.colorWriteMask,
                                 !.rop_code = "ROP_COPY" ]
    ELSE [ component_enable |-> att.colorWriteMask,
           rop_enable |-> rb_mrt_control_rop.rop_enable,
           rop_code |-> rb_mrt_control_rop.rop_code,
           blend |-> att.blendEnable,
           blend2 |-> att.blendEnable /\ has_alpha ]

\* tu6_emit_rb_mrt_controls (lines 1797-1837): the two registers of every
\* attachment and the blend-enable mask
tu6_emit_rb_mrt_controls(blend_info, attachment_formats) ==
    LET rop_reads_dst == blend_info.logicOpEnable /\ tu_logic_op_reads_dst(blend_info.logicOp)
        rb_mrt_control_rop ==
            IF blend_info.logicOpEnable
            THEN [ rop_enable |-> TRUE, rop_code |-> tu6_rop(blend_info.logicOp) ]
            ELSE [ rop_enable |-> FALSE, rop_code |-> "ROP_CLEAR" ]
        n == Len(blend_info.pAttachments)
        defined(i) == attachment_formats[i] # "VK_FORMAT_UNDEFINED"
    IN  [ RB_MRT_CONTROL |->
             [ i \in 1 .. n |->
                 IF defined(i)
                 THEN tu6_rb_mrt_control(blend_info.pAttachments[i], rb_mrt_control_rop,
                                         vk_format_is_int(attachment_formats[i]),
                                         vk_format_has_alpha(attachment_formats[i]))
                 ELSE ZeroMrtControl ],
          RB_MRT_BLEND_CONTROL |->
             [ i \in 1 .. n |->
                 IF defined(i)
                 THEN tu6_rb_mrt_blend_control(blend_info.pAttachments[i],
                                               vk_format_has_alpha(attachment_formats[i]))
                 ELSE ZeroMrtBlendControl ],
          blend_enable_mask |->
             { i - 1 : i \in { a \in 1 .. n :
                                 defined(a) /\ (blend_info.pAttachments[a].blendEnable
                                                \/ rop_reads_dst) } } ]

\* tu6_emit_blend_control (lines 1839-1863), the fields this model follows
tu6_emit_blend_control(blend_enable_mask, dual_src_blend) ==
    [ SP_BLEND_CNTL |-> [ enabled |-> blend_enable_mask,
                          dual_color_in_enable |-> dual_src_blend ],
      RB_BLEND_CNTL |-> [ enable_blend |-> blend_enable_mask,
                          independent_blend |-> TRUE,
                          dual_color_in_enable |-> dual_src_blend ] ]

\* the dual-source bit tu6_emit_fs_outputs writes (lines 1268-1272, 1286-1290)
tu6_emit_fs_outputs(dual_src_blend) ==
    [ SP_FS_OUTPUT_CNTL0 |-> [ dual_color_in_enable |-> dual_src_blend ],
      RB_FS_OUTPUT_CNTL0 |-> [ dual_color_in_enable |-> dual_src_blend ] ]

\* static const VkPipelineColorBlendStateCreateInfo dummy_blend_info (line 2364)
dummy_blend_info ==
    [ logicOpEnable |-> FALSE, logicOp |-> "VK_LOGIC_OP_CLEAR", pAttachments |-> << >> ]

\* the blend-related fields tu_pipeline_builder_init_graphics sets (lines
\* 2491-2529); subpass_formats[i] is the format of colour attachment i, or
\* "VK_ATTACHMENT_UNUSED"
InitBlendBuilder(create_info, subpass_formats) ==
    LET discard == create_info.rasterizerDiscardEnable
        used == { i \in 1 .. Len(subpass_formats) : subpass_formats[i] # "VK_ATTACHMENT_UNUSED" }
        dual == ~discard /\ tu_blend_state_is_dual_src(create_info.pColorBlendState)
    IN  [ rasterizer_discard |-> discard,
          color_attachment_formats |->
             [ i \in 1 .. MAX_RTS |->
                 IF ~discard /\ i \in used THEN subpass_formats[i] ELSE "VK_FORMAT_UNDEFINED" ],
          use_color_attachments |-> ~discard /\ used # {},
          use_dual_src_blend |-> dual,
          color_attachment_count |->
             IF discard THEN 0 ELSE Len(subpass_formats) + (IF dual THEN 1 ELSE 0) ]

\* the blend registers of one graphics pipeline create: the program's
\* fragment-output registers (tu6_emit_program, lines 1423-1436) and the blend
\* block of tu_pipeline_builder_parse_multisample_and_color_blend (lines
\* 2360-2382), which is left out when rasterization is discarded
BlendRegisters(create_info, subpass_formats) ==
    LET b == InitBlendBuilder(create_info, subpass_formats)
        blend_info == IF b.use_color_attachments THEN create_info.pColorBlendState
                      ELSE dummy_blend_info
        mrt == tu6_emit_rb_mrt_controls(blend_info, b.color_attachment_formats)
        ctl == tu6_emit_blend_control(mrt.blend_enable_mask, b.use_dual_src_blend)
        fso == tu6_emit_fs_outputs(b.use_dual_src_blend)
    IN  [ blend_emitted |-> ~b.rasterizer_discard,
          SP_FS_OUTPUT_CNTL0 |-> fso.SP_FS_OUTPUT_CNTL0,
          RB_FS_OUTPUT_CNTL0 |-> fso.RB_FS_OUTPUT_CNTL0,
          RB_MRT_CONTROL |-> IF b.rasterizer_discard THEN << >> ELSE mrt.RB_MRT_CONTROL,
          RB_MRT_BLEND_CONTROL |->
             IF b.rasterizer_discard THEN << >> ELSE mrt.RB_MRT_BLEND_CONTROL,
          SP_BLEND_CNTL |-> IF b.rasterizer_discard THEN NULL ELSE ctl.SP_BLEND_CNTL,
          RB_BLEND_CNTL |-> IF b.rasterizer_discard THEN NULL ELSE ctl.RB_BLEND_CNTL ]

emit_blend_state ==
    /\ pc = "emit_blend"
    /\ regs' = BlendRegisters(cmd.create_info, cmd.subpass_formats)
    /\ pc' = "blend_done"
    /\ UNCHANGED << kind, pipeline, builder, alloc, load_cs, vpc, linkage, vpc_out, cmd, create >>

(***************************************************************************)
(* The blend descriptions the encoders are run on.  Attachment i of a      *)
(* description is entry (seed + i * step) of a catalogue that crosses the  *)
(* factor tuples with blendEnable and the attachment's format.             *)
(***************************************************************************)
FactorTuples ==
    << << "VK_BLEND_FACTOR_ONE", "VK_BLEND_FACTOR_ZERO",
          "VK_BLEND_FACTOR_ONE", "VK_BLEND_FACTOR_ZERO" >>,
       << "VK_BLEND_FACTOR_SRC_ALPHA", "VK_BLEND_FACTOR_ONE_MINUS_DST_ALPHA",
          "VK_BLEND_FACTOR_ONE", "VK_BLEND_FACTOR_ZERO" >>,
       << "VK_BLEND_FACTOR_DST_ALPHA", "VK_BLEND_FACTOR_ONE_MINUS_DST_ALPHA",
          "VK_BLEND_FACTOR_DST_ALPHA", "VK_BLEND_FACTOR_ONE_MINUS_DST_ALPHA" >>,
       << "VK_BLEND_FACTOR_ONE", "VK_BLEND_FACTOR_ZERO",
          "VK_BLEND_FACTOR_ONE_MINUS_DST_ALPHA", "VK_BLEND_FACTOR_DST_ALPHA" >>,
       << "VK_BLEND_FACTOR_SRC1_COLOR", "VK_BLEND_FACTOR_ZERO",
          "VK_BLEND_FACTOR_ONE", "VK_BLEND_FACTOR_ZERO" >>,
       << "VK_BLEND_FACTOR_ONE", "VK_BLEND_FACTOR_ZERO",
          "VK_BLEND_FACTOR_ONE", "VK_BLEND_FACTOR_ONE_MINUS_SRC1_ALPHA" >>,
       << "VK_BLEND_FACTOR_DST_COLOR", "VK_BLEND_FACTOR_DST_ALPHA",
          "VK_BLEND_FACTOR_SRC_ALPHA", "VK_BLEND_FACTOR_ONE" >> >>

SubpassFormats ==
    << "VK_FORMAT_R8G8B8A8_UNORM", "VK_FORMAT_B10G11R11_UFLOAT_PACK32",
       "VK_FORMAT_R32_UINT", "VK_FORMAT_R8G8B8A8_SINT", "VK_ATTACHMENT_UNUSED" >>

AttachmentSeeds == 0 .. (Len(FactorTuples) * 2 * Len(SubpassFormats) - 1)

SeedAttachment(a) ==
    LET f == FactorTuples[(a % Len(FactorTuples)) + 1]
    IN  [ blendEnable |-> ((a \div Len(FactorTuples)) % 2) = 1,
          srcColorBlendFactor |-> f[1], dstColorBlendFactor |-> f[2],
          colorBlendOp |-> "VK_BLEND_OP_ADD",
          srcAlphaBlendFactor |-> f[3], dstAlphaBlendFactor |-> f[4],
          alphaBlendOp |-> IF a % 2 = 1 THEN "VK_BLEND_OP_MAX" ELSE "VK_BLEND_OP_ADD",
          colorWriteMask |-> IF a % 3 = 0 THEN { 0, 1, 2, 3 } ELSE { 0, 3 } ]

SeedFormat(a) ==
    SubpassFormats[((a \div (Len(FactorTuples) * 2)) % Len(SubpassFormats)) + 1]

AttachmentSteps == { 15, 29 }

LogicOps ==
    { [ logicOpEnable |-> FALSE, logicOp |-> "VK_LOGIC_OP_CLEAR" ],
      [ logicOpEnable |-> TRUE, logicOp |-> "VK_LOGIC_OP_COPY" ],
      [ logicOpEnable |-> TRUE, logicOp |-> "VK_LOGIC_OP_XOR" ] }

InitBlend ==
    /\ pc = "emit_blend"
    /\ kind = "graphics"
    /\ \E n \in 0 .. MaxAttachments, a \in AttachmentSeeds, step \in AttachmentSteps,
          lop \in LogicOps, discard \in BOOLEAN, null \in BOOLEAN :
         LET formats == [ i \in 1 .. n |-> SeedFormat(a + (i - 1) * step) ]
             atts == [ i \in 1 .. n |-> SeedAttachment(a + (i - 1) * step) ]
             unused == \A i \in 1 .. n : formats[i] = "VK_ATTACHMENT_UNUSED"
         IN  /\ null => (unused /\ a = 0 /\ step = 15 /\ ~lop.logicOpEnable)
             /\ n = 0 => a = 0 /\ step = 15
             /\ n <= 1 => step = 15
             /\ cmd = [ op |-> "blend",
                        create_info |->
                           [ rasterizerDiscardEnable |-> discard,
                             pColorBlendState |->
                                IF null THEN NULL
                                ELSE [ logicOpEnable |-> lop.logicOpEnable,
                                       logicOp |-> lop.logicOp,
                                       pAttachments |-> atts ] ],
                        subpass_formats |-> formats ]
    /\ pipeline = ZeroPipeline(SeedLayout(<< 0, 0, 0 >>, 1, 1))
    /\ builder = NoBuilder
    /\ alloc = NoAlloc
    /\ load_cs = NoLoadCs
    /\ vpc = NoVpc
    /\ linkage = NoLinkage
    /\ vpc_out = NoVpcOut
    /\ regs = NoRegs
    /\ create = NoCreate

NextBlend == emit_blend_state

SpecBlend == InitBlend /\ [][NextBlend]_vars

(***************************************************************************)
(* C11: the dual-source bit in the four registers that carry it.           *)
(***************************************************************************)
BlendFactorsOf(att) ==
    { att.srcColorBlendFactor, att.dstColorBlendFactor,
      att.srcAlphaBlendFactor, att.dstAlphaBlendFactor }

SecondSourceFactors ==
    { "VK_BLEND_FACTOR_SRC1_COLOR", "VK_BLEND_FACTOR_ONE_MINUS_SRC1_COLOR",
      "VK_BLEND_FACTOR_SRC1_ALPHA", "VK_BLEND_FACTOR_ONE_MINUS_SRC1_ALPHA" }

\* some attachment of the description names the second source colour
ReferencesSecondSource ==
    /\ cmd.create_info.pColorBlendState # NULL
    /\ \E i \in 1 .. Len(cmd.create_info.pColorBlendState.pAttachments) :
          BlendFactorsOf(cmd.create_info.pColorBlendState.pAttachments[i])
             \cap SecondSourceFactors # {}

\* the dual-source bit of a register that may not have been written
DualBit(reg) == reg # NULL /\ reg.dual_color_in_enable

DualBits ==
    { DualBit(regs.SP_FS_OUTPUT_CNTL0), DualBit(regs.RB_FS_OUTPUT_CNTL0),
      DualBit(regs.SP_BLEND_CNTL), DualBit(regs.RB_BLEND_CNTL) }

\* C11 (as stated): when any attachment's blend factors reference the second
\* source colour the dual-source bit is set in SP_FS_OUTPUT_CNTL0,
\* RB_FS_OUTPUT_CNTL0, SP_BLEND_CNTL and RB_BLEND_CNTL; otherwise it is clear
\* in all four.
C11_Original ==
    pc = "blend_done" => DualBits = { ReferencesSecondSource }

\* C11 (amended): when rasterization is not discarded the four registers are
\* all written and each carries the dual-source bit exactly when some
\* attachment's factors (colour or alpha, blending enabled or not) reference
\* the second source colour; when rasterization is discarded the bit is clear
\* in the two fragment-output registers and the two blend-control registers
\* are not written, whatever the factors.
C11_DualSourceBitUnlessDiscard ==
    pc = "blend_done" =>
        IF cmd.create_info.rasterizerDiscardEnable
        THEN /\ ~regs.SP_FS_OUTPUT_CNTL0.dual_color_in_enable
             /\ ~regs.RB_FS_OUTPUT_CNTL0.dual_color_in_enable
             /\ regs.SP_BLEND_CNTL = NULL /\ regs.RB_BLEND_CNTL = NULL
        ELSE /\ regs.SP_BLEND_CNTL # NULL /\ regs.RB_BLEND_CNTL # NULL
             /\ DualBits = { ReferencesSecondSource }

\* C11 witness: rasterization enabled, the only second-source factor is an
\* alpha factor of an attachment whose blending is disabled, and the bit is
\* set in all four registers.
C11_Witness ==
    /\ pc = "blend_done"
    /\ ~cmd.create_info.rasterizerDiscardEnable
    /\ ReferencesSecondSource
    /\ \A i \in 1 .. Len(cmd.create_info.pColorBlendState.pAttachments) :
          LET att == cmd.create_info.pColorBlendState.pAttachments[i]
          IN  /\ ~att.blendEnable
              /\ ~tu_blend_factor_is_dual_src(att.srcColorBlendFactor)
              /\ ~tu_blend_factor_is_dual_src(att.dstColorBlendFactor)
    /\ DualBits = { TRUE }

(***************************************************************************)
(* C12: destination-alpha factors of attachments whose format lacks alpha. *)
(***************************************************************************)
\* the attachments whose registers were computed from the description: the
\* indices (from 1) with a defined format, when the blend block was written
EncodedAttachments ==
    IF pc = "blend_done" /\ regs.blend_emitted
    THEN { i \in 1 .. Len(regs.RB_MRT_CONTROL) :
             cmd.subpass_formats[i] # "VK_ATTACHMENT_UNUSED" }
    ELSE {}

\* the hardware factor expected for a requested factor, with or without the
\* replacement of the destination-alpha factors
ExpectedFactor(factor, replace) ==
    IF replace /\ factor = "VK_BLEND_FACTOR_DST_ALPHA" THEN "FACTOR_ONE"
    ELSE IF replace /\ factor = "VK_BLEND_FACTOR_ONE_MINUS_DST_ALPHA" THEN "FACTOR_ZERO"
    ELSE tu6_blend_factor(factor)

\* the four factor fields of attachment i are encoded with the replacement
\* applied to the colour fields iff color and to the alpha fields iff alpha
FactorsEncoded(i, color, alpha) ==
    LET att == cmd.create_info.pColorBlendState.pAttachments[i]
        r == regs.RB_MRT_BLEND_CONTROL[i]
    IN  /\ r.rgb_src_factor = ExpectedFactor(att.srcColorBlendFactor, color)
        /\ r.rgb_dest_factor = ExpectedFactor(att.dstColorBlendFactor, color)
        /\ r.alpha_src_factor = ExpectedFactor(att.srcAlphaBlendFactor, alpha)
        /\ r.alpha_dest_factor = ExpectedFactor(att.dstAlphaBlendFactor, alpha)

\* C12 (as stated): for a format lacking alpha every DST_ALPHA factor, in the
\* colour and in the alpha fields alike, is encoded as ONE and every
\* ONE_MINUS_DST_ALPHA as ZERO; for a format with alpha the factors are
\* encoded unchanged.
C12_Original ==
    \A i \in EncodedAttachments :
        LET lacks == ~vk_format_has_alpha(cmd.subpass_formats[i])
        IN  FactorsEncoded(i, lacks, lacks)

\* C12 (amended): for a format lacking alpha a DST_ALPHA in the source-colour
\* or destination-colour field is encoded as ONE and a ONE_MINUS_DST_ALPHA as
\* ZERO, while the source-alpha and destination-alpha fields are encoded as
\* requested; for a format with alpha all four fields are as requested.
C12_ColorFactorsReplaced ==
    \A i \in EncodedAttachments :
        FactorsEncoded(i, ~vk_format_has_alpha(cmd.subpass_formats[i]), FALSE)

\* C12 witness: an attachment of a format without alpha asks for DST_ALPHA as
\* source-colour and as source-alpha factor; the colour field carries ONE and
\* the alpha field still DST_ALPHA.
C12_Witness ==
    \E i \in EncodedAttachments :
        /\ ~vk_format_has_alpha(cmd.subpass_formats[i])
        /\ cmd.create_info.pColorBlendState.pAttachments[i].srcColorBlendFactor
              = "VK_BLEND_FACTOR_DST_ALPHA"
        /\ cmd.create_info.pColorBlendState.pAttachments[i].srcAlphaBlendFactor
              = "VK_BLEND_FACTOR_DST_ALPHA"
        /\ regs.RB_MRT_BLEND_CONTROL[i].rgb_src_factor = "FACTOR_ONE"
        /\ regs.RB_MRT_BLEND_CONTROL[i].alpha_src_factor = "FACTOR_DST_ALPHA"

(***************************************************************************)
(* C13: integer-format attachments.                                        *)
(***************************************************************************)
IntegerAttachments ==
    { i \in EncodedAttachments : vk_format_is_int(cmd.subpass_formats[i]) }

\* the control register of attachment i carries the write mask and the copy
\* rop code and nothing else
OnlyWriteMaskAndCopy(i) ==
    regs.RB_MRT_CONTROL[i] =
        [ component_enable |-> cmd.create_info.pColorBlendState.pAttachments[i].colorWriteMask,
          rop_enable |-> FALSE, rop_code |-> "ROP_COPY", blend |-> FALSE, blend2 |-> FALSE ]

\* C13 (as stated): for an integer-format attachment the control register
\* carries only the write mask and the copy rop code (no blend bits, no
\* rop-enable) and the attachment's bit in the blend-enable mask of
\* SP_BLEND_CNTL and RB_BLEND_CNTL is clear.
C13_Original ==
    \A i \in IntegerAttachments :
        /\ OnlyWriteMaskAndCopy(i)
        /\ (i - 1) \notin regs.SP_BLEND_CNTL.enabled
        /\ (i - 1) \notin regs.RB_BLEND_CNTL.enable_blend

(***************************************************************************)
(* tu6_emit_scissor (lines 1586-1613).  Offsets are not negative and       *)
(* offset + extent stays below 2^31, so the int32 sums and the unsigned    *)
(* comparison of MIN2 are the mathematical ones.                           *)
(***************************************************************************)
SCISSOR_MAX == 32767   \* BITFIELD_MASK(15)

\* a variant of ScissorRegisters without the special case for max == 0
ScissorRegisters_NoEmptyCase(scissor) ==
    LET min_x == Min2(SCISSOR_MAX, scissor.offset.x)
        min_y == Min2(SCISSOR_MAX, scissor.offset.y)
        max_x == Min2(SCISSOR_MAX, scissor.offset.x + scissor.extent.width)
        max_y == Min2(SCISSOR_MAX, scissor.offset.y + scissor.extent.height)
    IN  [ GRAS_SC_SCREEN_SCISSOR_TL |-> [ x |-> min_x, y |-> min_y ],
          GRAS_SC_SCREEN_SCISSOR_BR |-> [ x |-> max_x - 1, y |-> max_y - 1 ] ]

\* the two registers tu6_emit_scissor writes
ScissorRegisters(scissor) ==
    LET sum_x == scissor.offset.x + scissor.extent.width
        sum_y == scissor.offset.y + scissor.extent.height
        min_x == Min2(SCISSOR_MAX, IF sum_x = 0 THEN 1 ELSE scissor.offset.x)
        min_y == Min2(SCISSOR_MAX, IF sum_y = 0 THEN 1 ELSE scissor.offset.y)
        max_x == Min2(SCISSOR_MAX, IF sum_x = 0 THEN 1 ELSE sum_x)
        max_y == Min2(SCISSOR_MAX, IF sum_y = 0 THEN 1 ELSE sum_y)
    IN  [ GRAS_SC_SCREEN_SCISSOR_TL |-> [ x |-> min_x, y |-> min_y ],
          GRAS_SC_SCREEN_SCISSOR_BR |-> [ x |-> max_x - 1, y |-> max_y - 1 ] ]

tu6_emit_scissor ==
    /\ pc = "emit_scissor"
    /\ regs' = ScissorRegisters(cmd.scissor)
    /\ pc' = "scissor_done"
    /\ UNCHANGED << kind, pipeline, builder, alloc, load_cs, vpc, linkage, vpc_out, cmd, create >>

ScissorOffsets == { 0, 1, 5, 32766, 32767, 32768, 40000 }

ScissorExtents == { 0, 1, 2, 100, 40000 }

InitScissor ==
    /\ pc = "emit_scissor"
    /\ kind = "graphics"
    /\ \E x \in ScissorOffsets, y \in ScissorOffsets,
          w \in ScissorExtents, h \in ScissorExtents :
         cmd = [ op |-> "scissor",
                 scissor |-> [ offset |-> [ x |-> x, y |-> y ],
                               extent |-> [ width |-> w, height |-> h ] ] ]
    /\ pipeline = ZeroPipeline(SeedLayout(<< 0, 0, 0 >>, 1, 1))
    /\ builder = NoBuilder
    /\ alloc = NoAlloc
    /\ load_cs = NoLoadCs
    /\ vpc = NoVpc
    /\ linkage = NoLinkage
    /\ vpc_out = NoVpcOut
    /\ regs = NoRegs
    /\ create = NoCreate

NextScissor == tu6_emit_scissor

SpecScissor == InitScissor /\ [][NextScissor]_vars

\* the axes on which the scissor that was emitted has zero extent
ZeroExtentAxes ==
    { a \in { "x", "y" } :
        /\ pc = "scissor_done"
        /\ (IF a = "x" THEN cmd.scissor.extent.width ELSE cmd.scissor.extent.height) = 0 }

\* C14 (as stated): a scissor of zero width or height at a non-negative
\* offset is encoded as a 1x1 box: on every axis the emitted bottom-right
\* coordinate is at least the top-left coordinate.
C14_Original ==
    ZeroExtentAxes # {} =>
        /\ regs.GRAS_SC_SCREEN_SCISSOR_BR.x >= regs.GRAS_SC_SCREEN_SCISSOR_TL.x
        /\ regs.GRAS_SC_SCREEN_SCISSOR_BR.y >= regs.GRAS_SC_SCREEN_SCISSOR_TL.y

\* C14 (amended): on an axis of zero extent the emitted range is empty, its
\* bottom-right coordinate being exactly one less than its top-left
\* coordinate, which is 1 for offset 0 and min(offset, 32767) otherwise, so
\* the bottom-right coordinate never goes below 0; on an axis whose extent is
\* not zero and ends within 32767 the range is offset .. offset + extent - 1.
C14_EmptyScissorIsInverted ==
    pc = "scissor_done" =>
        \A a \in { "x", "y" } :
            LET off == cmd.scissor.offset[a]
                ext == IF a = "x" THEN cmd.scissor.extent.width ELSE cmd.scissor.extent.height
                tl == regs.GRAS_SC_SCREEN_SCISSOR_TL[a]
                br == regs.GRAS_SC_SCREEN_SCISSOR_BR[a]
            IN  /\ a \in ZeroExtentAxes =>
                      /\ tl = (IF off = 0 THEN 1 ELSE Min2(off, SCISSOR_MAX))
                      /\ br = tl - 1
                      /\ br >= 0
                /\ (ext > 0 /\ off + ext <= SCISSOR_MAX) =>
                      (tl = off /\ br = off + ext - 1 /\ br >= tl)

\* C14 witness: a scissor at offset (0, 5) with zero width and zero height;
\* the emitted box is TL (1, 5), BR (0, 4).
C14_Witness ==
    /\ ZeroExtentAxes = { "x", "y" }
    /\ cmd.scissor.offset = [ x |-> 0, y |-> 5 ]
    /\ regs.GRAS_SC_SCREEN_SCISSOR_TL = [ x |-> 1, y |-> 5 ]
    /\ regs.GRAS_SC_SCREEN_SCISSOR_BR = [ x |-> 0, y |-> 4 ]

(***************************************************************************)
(* Depth/stencil state: tu6_emit_depth_control (lines 1693-1716),          *)
(* tu6_emit_stencil_control (lines 1718-1743) and the register contents of *)
(* tu_pipeline_builder_parse_depth_stencil (lines 2286-2340).              *)
(***************************************************************************)
\* tu6_compare_func and tu6_stencil_op: the hardware's names of a compare op
\* and a stencil op; NEVER and KEEP are the zero values on both sides
tu6_compare_func(op) ==
    CASE op = "VK_COMPARE_OP_NEVER" -> "FUNC_NEVER"
      [] op = "VK_COMPARE_OP_LESS" -> "FUNC_LESS"
      [] op = "VK_COMPARE_OP_ALWAYS" -> "FUNC_ALWAYS"

tu6_stencil_op(op) ==
    CASE op = "VK_STENCIL_OP_KEEP" -> "STENCIL_KEEP"
      [] op = "VK_STENCIL_OP_ZERO" -> "STENCIL_ZERO"
      [] op = "VK_STENCIL_OP_REPLACE" -> "STENCIL_REPLACE"

ZeroStencilOpState ==
    [ failOp |-> "VK_STENCIL_OP_KEEP", passOp |-> "VK_STENCIL_OP_KEEP",
      depthFailOp |-> "VK_STENCIL_OP_KEEP", compareOp |-> "VK_COMPARE_OP_NEVER",
      compareMask |-> 0, writeMask |-> 0, reference |-> 0 ]

\* static const VkPipelineDepthStencilStateCreateInfo dummy_ds_info (line 2301)
dummy_ds_info ==
    [ depthTestEnable |-> FALSE, depthWriteEnable |-> FALSE,
      depthCompareOp |-> "VK_COMPARE_OP_NEVER", depthBoundsTestEnable |-> FALSE,
      stencilTestEnable |-> FALSE, front |-> ZeroStencilOpState, back |-> ZeroStencilOpState,
      minDepthBounds |-> 0, maxDepthBounds |-> 0 ]

\* the value 0 of RB_DEPTH_CNTL and of RB_STENCIL_CONTROL
ZeroDepthCntl ==
    [ z_enable |-> FALSE, zfunc |-> "FUNC_NEVER", z_test_enable |-> FALSE,
      z_clamp_enable |-> FALSE, z_write_enable |-> FALSE, z_bounds_enable |-> FALSE ]

ZeroStencilControl ==
    [ stencil_enable |-> FALSE, stencil_enable_bf |-> FALSE, stencil_read |-> FALSE,
      func |-> "FUNC_NEVER", fail |-> "STENCIL_KEEP", zpass |-> "STENCIL_KEEP",
      zfail |-> "STENCIL_KEEP", func_bf |-> "FUNC_NEVER", fail_bf |-> "STENCIL_KEEP",
      zpass_bf |-> "STENCIL_KEEP", zfail_bf |-> "STENCIL_KEEP" ]

\* tu6_emit_depth_control (lines 1693-1716): RB_DEPTH_CNTL
tu6_emit_depth_control(ds_info, rast_info) ==
    [ z_enable |-> ds_info.depthTestEnable,
      zfunc |-> IF ds_info.depthTestEnable THEN tu6_compare_func(ds_info.depthCompareOp)
                ELSE "FUNC_NEVER",
      z_test_enable |-> ds_info.depthTestEnable \/ ds_info.depthBoundsTestEnable,
      z_clamp_enable |-> ds_info.depthTestEnable /\ rast_info.depthClampEnable,
      z_write_enable |-> ds_info.depthTestEnable /\ ds_info.depthWriteEnable,
      z_bounds_enable |-> ds_info.depthBoundsTestEnable ]

\* tu6_emit_stencil_control (lines 1718-1743): RB_STENCIL_CONTROL
tu6_emit_stencil_control(ds_info) ==
    IF ds_info.stencilTestEnable
    THEN [ stencil_enable |-> TRUE, stencil_enable_bf |-> TRUE, stencil_read |-> TRUE,
           func |-> tu6_compare_func(ds_info.front.compareOp),
           fail |-> tu6_stencil_op(ds_info.front.failOp),
           zpass |-> tu6_stencil_op(ds_info.front.passOp),
           zfail |-> tu6_stencil_op(ds_info.front.depthFailOp),
           func_bf |-> tu6_compare_func(ds_info.back.compareOp),
           fail_bf |-> tu6_stencil_op(ds_info.back.failOp),
           zpass_bf |-> tu6_stencil_op(ds_info.back.passOp),
           zfail_bf |-> tu6_stencil_op(ds_info.back.depthFailOp) ]
    ELSE ZeroStencilControl

\* the depth_attachment_format of tu_pipeline_builder_init_graphics (lines
\* 2495-2506): left zero, which is VK_FORMAT_UNDEFINED, under rasterizer discard
DepthAttachmentFormat(create_info, subpass_format) ==
    IF create_info.rasterizerDiscardEnable \/ subpass_format = "VK_ATTACHMENT_UNUSED"
    THEN "VK_FORMAT_UNDEFINED"
    ELSE subpass_format

\* a variant of DepthInfoOf that keeps the requested depth state for S8_UINT
DepthInfoOf_Requested(format, ds_info) == ds_info

\* ds_info_depth (lines 2306-2308)
DepthInfoOf(format, ds_info) ==
    IF format # "VK_FORMAT_S8_UINT" THEN ds_info ELSE dummy_ds_info

\* the registers of tu_pipeline_builder_parse_depth_stencil (lines 2301-2339);
\* a register of a category in the dynamic-state mask is not written (NULL)
DepthStencilRegisters(create_info, subpass_format, dynamic_state_mask) ==
    LET format == DepthAttachmentFormat(create_info, subpass_format)
        ds_info == IF format # "VK_FORMAT_UNDEFINED" THEN create_info.pDepthStencilState
                   ELSE dummy_ds_info
        ds_info_depth == DepthInfoOf(format, ds_info)
        static(id) == id \notin dynamic_state_mask
    IN  [ RB_DEPTH_CNTL |-> tu6_emit_depth_control(ds_info_depth, create_info.pRasterizationState),
          RB_STENCIL_CONTROL |-> tu6_emit_stencil_control(ds_info),
          RB_Z_BOUNDS |->
             IF static("DEPTH_BOUNDS")
             THEN [ min |-> ds_info.minDepthBounds, max |-> ds_info.maxDepthBounds ]
             ELSE NULL,
          RB_STENCILMASK |->
             IF static("STENCIL_COMPARE_MASK")
             THEN [ mask |-> ds_info.front.compareMask % 256,
                    bfmask |-> ds_info.back.compareMask % 256 ]
             ELSE NULL,
          RB_STENCILWRMASK |->
             IF static("STENCIL_WRITE_MASK")
             THEN [ wrmask |-> ds_info.front.writeMask % 256,
                    bfwrmask |-> ds_info.back.writeMask % 256 ]
             ELSE NULL,
          RB_STENCILREF |->
             IF static("STENCIL_REFERENCE")
             THEN [ ref |-> ds_info.front.reference % 256,
                    bfref |-> ds_info.back.reference % 256 ]
             ELSE NULL ]

emit_depth_stencil_state ==
    /\ pc = "emit_ds"
    /\ regs' = DepthStencilRegisters(cmd.create_info, cmd.subpass_format,
                                     cmd.dynamic_state_mask)
    /\ pc' = "ds_done"
    /\ UNCHANGED << kind, pipeline, builder, alloc, load_cs, vpc, linkage, vpc_out, cmd, create >>

\* the depth/stencil descriptions the encoder is run on
StencilOpStates ==
    { [ failOp |-> "VK_STENCIL_OP_KEEP", passOp |-> "VK_STENCIL_OP_REPLACE",
        depthFailOp |-> "VK_STENCIL_OP_ZERO", compareOp |-> "VK_COMPARE_OP_LESS",
        compareMask |-> 255, writeMask |-> 15, reference |-> 257 ],
      [ failOp |-> "VK_STENCIL_OP_ZERO", passOp |-> "VK_STENCIL_OP_KEEP",
        depthFailOp |-> "VK_STENCIL_OP_KEEP", compareOp |-> "VK_COMPARE_OP_ALWAYS",
        compareMask |-> 256, writeMask |-> 255, reference |-> 3 ] }

DepthSubpassFormats ==
    { "VK_ATTACHMENT_UNUSED", "VK_FORMAT_D32_SFLOAT", "VK_FORMAT_D24_UNORM_S8_UINT",
      "VK_FORMAT_S8_UINT" }

DepthDynamicMasks ==
    { {}, { "DEPTH_BOUNDS" }, { "STENCIL_COMPARE_MASK", "STENCIL_WRITE_MASK", "STENCIL_REFERENCE" } }

InitDepthStencil ==
    /\ pc = "emit_ds"
    /\ kind = "graphics"
    /\ \E ztest \in BOOLEAN, zwrite \in BOOLEAN, zbounds \in BOOLEAN, stest \in BOOLEAN,
          clamp \in BOOLEAN, discard \in BOOLEAN, front \in StencilOpStates,
          format \in DepthSubpassFormats, mask \in DepthDynamicMasks :
         cmd = [ op |-> "depth_stencil",
                 create_info |->
                    [ rasterizerDiscardEnable |-> discard,
                      pRasterizationState |-> [ depthClampEnable |-> clamp ],
                      pDepthStencilState |->
                         [ depthTestEnable |-> ztest, depthWriteEnable |-> zwrite,
                           depthCompareOp |-> IF zwrite THEN "VK_COMPARE_OP_LESS"
                                              ELSE "VK_COMPARE_OP_ALWAYS",
                           depthBoundsTestEnable |-> zbounds,
                           stencilTestEnable |-> stest,
                           front |-> front,
                           back |-> CHOOSE b \in StencilOpStates : b # front,
                           minDepthBounds |-> 1, maxDepthBounds |-> 2 ] ],
                 subpass_format |-> format,
                 dynamic_state_mask |-> mask ]
    /\ pipeline = ZeroPipeline(SeedLayout(<< 0, 0, 0 >>, 1, 1))
    /\ builder = NoBuilder
    /\ alloc = NoAlloc
    /\ load_cs = NoLoadCs
    /\ vpc = NoVpc
    /\ linkage = NoLinkage
    /\ vpc_out = NoVpcOut
    /\ regs = NoRegs
    /\ create = NoCreate

NextDepthStencil == emit_depth_stencil_state

SpecDepthStencil == InitDepthStencil /\ [][NextDepthStencil]_vars

\* the baked registers (those that were written) all hold zero
BakedValuesZero ==
    /\ regs.RB_Z_BOUNDS \in { NULL, [ min |-> 0, max |-> 0 ] }
    /\ regs.RB_STENCILMASK \in { NULL, [ mask |-> 0, bfmask |-> 0 ] }
    /\ regs.RB_STENCILWRMASK \in { NULL, [ wrmask |-> 0, bfwrmask |-> 0 ] }
    /\ regs.RB_STENCILREF \in { NULL, [ ref |-> 0, bfref |-> 0 ] }

\* RB_STENCIL_CONTROL encodes the stencil state the create-info requests
StencilControlAsRequested ==
    LET ds == cmd.create_info.pDepthStencilState
        r == regs.RB_STENCIL_CONTROL
    IN  /\ r.stencil_enable = ds.stencilTestEnable
        /\ r.stencil_enable_bf = ds.stencilTestEnable
        /\ r.stencil_read = ds.stencilTestEnable
        /\ ds.stencilTestEnable =>
              /\ << r.func, r.fail, r.zpass, r.zfail >>
                    = << tu6_compare_func(ds.front.compareOp), tu6_stencil_op(ds.front.failOp),
                         tu6_stencil_op(ds.front.passOp), tu6_stencil_op(ds.front.depthFailOp) >>
              /\ << r.func_bf, r.fail_bf, r.zpass_bf, r.zfail_bf >>
                    = << tu6_compare_func(ds.back.compareOp), tu6_stencil_op(ds.back.failOp),
                         tu6_stencil_op(ds.back.passOp), tu6_stencil_op(ds.back.depthFailOp) >>
        /\ ~ds.stencilTestEnable => r = ZeroStencilControl

\* C15: without a depth/stencil attachment, or with rasterization discarded,
\* RB_DEPTH_CNTL and RB_STENCIL_CONTROL are zero and the baked depth bounds,
\* stencil masks and stencil reference are zero whatever is requested; with
\* an S8_UINT attachment RB_DEPTH_CNTL is zero and RB_STENCIL_CONTROL encodes
\* the requested stencil state.
C15_FormatOverridesDepthStencil ==
    pc = "ds_done" =>
        /\ (cmd.create_info.rasterizerDiscardEnable
            \/ cmd.subpass_format = "VK_ATTACHMENT_UNUSED") =>
              /\ regs.RB_DEPTH_CNTL = ZeroDepthCntl
              /\ regs.RB_STENCIL_CONTROL = ZeroStencilControl
              /\ BakedValuesZero
        /\ (~cmd.create_info.rasterizerDiscardEnable
            /\ cmd.subpass_format = "VK_FORMAT_S8_UINT") =>
              /\ regs.RB_DEPTH_CNTL = ZeroDepthCntl
              /\ StencilControlAsRequested

\* C15 witness: an S8_UINT attachment with depth test, depth write, depth
\* bounds test and stencil test all requested: depth control is zero and the
\* stencil control has the test enabled.
C15_Witness ==
    /\ pc = "ds_done"
    /\ ~cmd.create_info.rasterizerDiscardEnable
    /\ cmd.subpass_format = "VK_FORMAT_S8_UINT"
    /\ cmd.create_info.pDepthStencilState.depthTestEnable
    /\ cmd.create_info.pDepthStencilState.depthWriteEnable
    /\ cmd.create_info.pDepthStencilState.depthBoundsTestEnable
    /\ cmd.create_info.pDepthStencilState.stencilTestEnable
    /\ regs.RB_DEPTH_CNTL = ZeroDepthCntl
    /\ regs.RB_STENCIL_CONTROL.stencil_enable
    /\ regs.RB_STENCIL_CONTROL.func # "FUNC_NEVER"

(***************************************************************************)
(* C16: static and dynamic state categories of a graphics build (Spec).    *)
(***************************************************************************)
\* the categories the create-info declares dynamic, by their pipeline ids
DeclaredDynamic ==
    { IF builder.create_info.dynamic_states[i] = "SAMPLE_LOCATIONS_EXT"
      THEN "TU_DYNAMIC_STATE_SAMPLE_LOCATIONS"
      ELSE builder.create_info.dynamic_states[i] :
      i \in 1 .. Len(builder.create_info.dynamic_states) }

\* the block sizes a category can have, in dwords
CategorySizes(id) ==
    CASE id = "VIEWPORT" -> { 18 }
      [] id = "SCISSOR" -> { 3 }
      [] id = "LINE_WIDTH" -> { 2 }
      [] id = "DEPTH_BIAS" -> { 4 }
      [] id = "BLEND_CONSTANTS" -> { 5 }
      [] id = "DEPTH_BOUNDS" -> { 3 }
      [] id \in { "STENCIL_COMPARE_MASK", "STENCIL_WRITE_MASK", "STENCIL_REFERENCE" } -> { 2 }
      [] id = "TU_DYNAMIC_STATE_SAMPLE_LOCATIONS" -> { 6, 9 }

\* the categories whose parse step is skipped when rasterization is discarded
RasterOnlyCategories ==
    { "VIEWPORT", "SCISSOR", "BLEND_CONSTANTS", "TU_DYNAMIC_STATE_SAMPLE_LOCATIONS" }

GraphicsBuilt == pc = "built" /\ kind = "graphics"

\* C16 (as stated): every category has a block of its fixed size in the
\* pipeline: a baked one, recorded in the pipeline, when the category is not
\* declared dynamic, and a reserved slot of the same size when it is.
C16_Original ==
    GraphicsBuilt =>
        \A id \in DynamicStateIds : pipeline.dynamic_state[id] \in CategorySizes(id)

\* C16 (amended): a category that is not declared dynamic is baked into a
\* block of its fixed size that the pipeline records, except that viewport,
\* scissor, blend constants and sample locations are not baked when
\* rasterization is discarded; for a category declared dynamic nothing is
\* reserved in the stream and no block is recorded, and the stream holds the
\* binaries and the recorded blocks only.
C16_StaticBakedDynamicNothing ==
    GraphicsBuilt =>
        /\ \A id \in DynamicStateIds :
              IF id \in DeclaredDynamic
                 \/ (builder.rasterizer_discard /\ id \in RasterOnlyCategories)
              THEN pipeline.dynamic_state[id] = 0
              ELSE pipeline.dynamic_state[id] \in CategorySizes(id)
        /\ pipeline.cs.total = UploadedDwords + BlockDwords(pipeline)

\* C16 witness: viewport and scissor declared dynamic, rasterization enabled:
\* no block for the two, baked blocks for blend constants and line width.
C16_Witness ==
    /\ GraphicsBuilt
    /\ ~builder.rasterizer_discard
    /\ DeclaredDynamic = { "VIEWPORT", "SCISSOR" }
    /\ pipeline.dynamic_state["VIEWPORT"] = 0
    /\ pipeline.dynamic_state["SCISSOR"] = 0
    /\ pipeline.dynamic_state["BLEND_CONSTANTS"] = 5
    /\ pipeline.dynamic_state["LINE_WIDTH"] = 2

(***************************************************************************)
(* C17 and C18: the outcomes of the create call (SpecCreate).              *)
(***************************************************************************)
BuildCompleted == pc \in { "built", "returned" } /\ create.result \in { "none", "VK_SUCCESS" }

\* C17 (as stated): a dynamic state the driver does not recognise makes the
\* build fail fatally: no build completes with such a state in the list (and
\* so left out of the dynamic-state mask).
C17_Original ==
    BuildCompleted => UnsupportedStates(builder.create_info.dynamic_states) = {}

\* C18 (as stated): when a shader, a shader variant or the stream allocation
\* fails, the call returns an error, the handle is VK_NULL_HANDLE and nothing
\* acquired for the build is left: not the pipeline object, no shader object,
\* not the command stream that was initialised.
C18_Original ==
    (pc = "returned" /\ create.fault # "none") =>
        /\ create.result \in { "VK_ERROR_OUT_OF_HOST_MEMORY", "VK_ERROR_OUT_OF_DEVICE_MEMORY" }
        /\ create.pPipeline = "VK_NULL_HANDLE"
        /\ create.live = {}

(***************************************************************************)
(* C19: the binary addresses given to tu6_emit_xs_config (Spec).  An iova  *)
(* of the model is the binary's dword offset from the buffer's base        *)
(* address, which is page aligned.                                         *)
(***************************************************************************)
\* the program sub-streams have been emitted
ProgramEmitted ==
    IF kind = "graphics"
    THEN pc \notin { "compile_shaders", "allocate_cs", "upload", "parse_dynamic",
                     "parse_shader_stages", "returned", "aborted" }
    ELSE pc \in { "emit_load_state", "built" }

\* the iovas tu6_emit_xs_config was given for enabled stages: one per variant,
\* and the binning variant's when the binning program uses it (lines 1396-1409)
XsConfigIovas ==
    { builder.shader_iova[s] :
        s \in { t \in 0 .. MESA_SHADER_STAGES - 1 : builder.variants[t] # NULL } }
    \cup (IF kind = "graphics" /\ builder.variants[MESA_SHADER_GEOMETRY] = NULL
          THEN { builder.binning_vs_iova } ELSE {})

\* C19: every binary address passed to tu6_emit_xs_config for an enabled
\* stage is a multiple of 128 bytes, for every combination of stages, the
\* binary sizes being multiples of 128 bytes and the binaries being uploaded
\* first into the fresh stream.
C19_BinaryIovaAligned ==
    ProgramEmitted => \A iova \in XsConfigIovas : (iova * 4) % 128 = 0

\* C19 witness: a finished graphics build with tessellation stages: five
\* binaries at five different aligned addresses.
C19_Witness ==
    /\ pc = "built"
    /\ kind = "graphics"
    /\ builder.variants[MESA_SHADER_TESS_CTRL] # NULL
    /\ Cardinality(XsConfigIovas) = 5
    /\ \A iova \in XsConfigIovas : (iova * 4) % 128 = 0

(***************************************************************************)
(* The immediates upload of tu6_emit_xs_config (lines 444-468).  base,     *)
(* immediates_count and constlen are uint32_t and size is an int: the sum  *)
(* and the difference are taken in uint32_t and the difference is read     *)
(* back as an int.  All three inputs are far below 2^31 (a constant file   *)
(* has a few hundred vec4), so the sum does not wrap, and a difference     *)
(* that wraps below zero is read back as the negative number it stands     *)
(* for.                                                                    *)
(***************************************************************************)
DIV_ROUND_UP(a, b) == (a + b - 1) \div b

\* (int) ((uint32_t) a - (uint32_t) b) for a, b below 2^31
IntOfU32Difference(a, b) == a - b

\* a variant of ImmediatesSize without the truncation to constlen
ImmediatesSize_Declared(base, immediates_count, constlen) ==
    DIV_ROUND_UP(immediates_count, 4)

\* size after lines 447-452
ImmediatesSize(base, immediates_count, constlen) ==
    LET size == DIV_ROUND_UP(immediates_count, 4)
    IN  IntOfU32Difference(Min2(size + base, constlen), base)

\* the CP_LOAD_STATE6 packet of lines 457-467, or NULL after the return of
\* line 455
ImmediatesPacket(xs) ==
    LET size == ImmediatesSize(xs.immediate_offset, xs.immediates_count, xs.constlen)
    IN  IF size <= 0 THEN NULL
        ELSE [ dwords |-> 3 + size * 4, DST_OFF |-> xs.immediate_offset,
               NUM_UNIT |-> size, payload |-> size * 4 ]

emit_immediates ==
    /\ pc = "emit_immediates"
    /\ regs' = [ CP_LOAD_STATE6 |-> ImmediatesPacket(cmd.xs) ]
    /\ pc' = "immediates_done"
    /\ UNCHANGED << kind, pipeline, builder, alloc, load_cs, vpc, linkage, vpc_out, cmd, create >>

\* the variants the upload is run on: the immediates offset and the constant
\* length in vec4 units, the immediates count in dwords
ImmediateOffsets == { 0, 1, 4, 8, 9 }

ImmediateCounts == { 0, 1, 4, 5, 8, 13, 64 }

ConstLens == { 0, 2, 4, 5, 8, 16 }

InitImmediates ==
    /\ pc = "emit_immediates"
    /\ kind \in { "graphics", "compute" }
    /\ \E base \in ImmediateOffsets, count \in ImmediateCounts, constlen \in ConstLens :
         cmd = [ op |-> "immediates",
                 xs |-> [ immediate_offset |-> base, immediates_count |-> count,
                          constlen |-> constlen ] ]
    /\ pipeline = ZeroPipeline(SeedLayout(<< 0, 0, 0 >>, 1, 1))
    /\ builder = NoBuilder
    /\ alloc = NoAlloc
    /\ load_cs = NoLoadCs
    /\ vpc = NoVpc
    /\ linkage = NoLinkage
    /\ vpc_out = NoVpcOut
    /\ regs = NoRegs
    /\ create = NoCreate

NextImmediates == emit_immediates

SpecImmediates == InitImmediates /\ [][NextImmediates]_vars

\* C20: with base the immediates offset and n = ceil(immediates_count / 4),
\* the upload covers min(n, constlen - base) vec4 units starting at base, so
\* base + units <= constlen, and there is no packet at all when
\* base >= constlen or the stage has no immediates.
C20_ImmediatesWithinConstlen ==
    pc = "immediates_done" =>
        LET base == cmd.xs.immediate_offset
            constlen == cmd.xs.constlen
            n == (cmd.xs.immediates_count + 3) \div 4
            packet == regs.CP_LOAD_STATE6
        IN  IF base >= constlen \/ cmd.xs.immediates_count = 0
            THEN packet = NULL
            ELSE /\ packet # NULL
                 /\ packet.DST_OFF = base
                 /\ packet.NUM_UNIT = (IF n < constlen - base THEN n ELSE constlen - base)
                 /\ packet.payload = 4 * packet.NUM_UNIT
                 /\ base + packet.NUM_UNIT <= constlen

\* C20 witness: 13 immediates (4 units) at offset 4 of a constant length of
\* 5: the upload is cut to the one unit that fits.
C20_Witness ==
    /\ pc = "immediates_done"
    /\ cmd.xs = [ immediate_offset |-> 4, immediates_count |-> 13, constlen |-> 5 ]
    /\ regs.CP_LOAD_STATE6 # NULL
    /\ regs.CP_LOAD_STATE6.NUM_UNIT = 1


(***************************************************************************)
(* C21: the binning variant and the stages of the binning program (Spec).  *)
(***************************************************************************)
\* the shaders of a graphics build have been resolved
ShadersResolved ==
    kind = "graphics" /\ builder.variants[MESA_SHADER_VERTEX] # NULL

\* C21: after the shaders are resolved the binning variant is not null: it is
\* the vertex variant itself when the vertex shader has stream outputs or a
\* geometry stage is present, a separately resolved reduced variant
\* otherwise; the binning program disables the fragment stage and configures
\* the vertex stage with the binning variant at its own address, or with the
\* vertex variant at the vertex binary's address when a geometry stage is
\* present.
C21_BinningVariantSelection ==
    ShadersResolved =>
        LET vs == builder.variants[MESA_SHADER_VERTEX]
            gs == builder.variants[MESA_SHADER_GEOMETRY]
            so == builder.shaders[MESA_SHADER_VERTEX].stream_output_num_outputs
        IN  /\ builder.binning_variant # NULL
            /\ builder.binning_variant =
                  IF so # 0 \/ gs # NULL THEN vs
                  ELSE VariantOf(MESA_SHADER_VERTEX, TRUE)
            /\ (so = 0 /\ gs = NULL) => builder.binning_variant # vs
            /\ ProgramEmitted =>
                  /\ regs.binning_program[MESA_SHADER_FRAGMENT].xs = NULL
                  /\ regs.binning_program[MESA_SHADER_VERTEX] =
                        IF gs = NULL
                        THEN [ xs |-> builder.binning_variant,
                               binary_iova |-> builder.binning_vs_iova ]
                        ELSE [ xs |-> vs,
                               binary_iova |-> builder.shader_iova[MESA_SHADER_VERTEX] ]

\* C21 witness: a finished build without stream outputs and without a
\* geometry stage, whose binning program runs the reduced variant from an
\* address of its own.
C21_Witness ==
    /\ pc = "built"
    /\ ShadersResolved
    /\ builder.variants[MESA_SHADER_GEOMETRY] = NULL
    /\ builder.binning_variant = VariantOf(MESA_SHADER_VERTEX, TRUE)
    /\ regs.binning_program[MESA_SHADER_VERTEX].xs = builder.binning_variant
    /\ regs.binning_program[MESA_SHADER_VERTEX].binary_iova
          # regs.program[MESA_SHADER_VERTEX].binary_iova
    /\ regs.program[MESA_SHADER_FRAGMENT].xs # NULL
    /\ regs.binning_program[MESA_SHADER_FRAGMENT].xs = NULL

(***************************************************************************)
(* The tessellation control register of tu6_emit_vpc (lines 936-964), for  *)
(* a pipeline with tessellation stages.  Inputs: the tessellation          *)
(* declarations (nir->info.tess) of the control stage hs and of the        *)
(* evaluation stage ds.                                                    *)
(***************************************************************************)
TessSpacings ==
    { "TESS_SPACING_UNSPECIFIED", "TESS_SPACING_EQUAL",
      "TESS_SPACING_FRACTIONAL_ODD", "TESS_SPACING_FRACTIONAL_EVEN" }

TessPrimitiveModes == { "GL_TRIANGLES", "GL_QUADS", "GL_ISOLINES" }

TessInfos ==
    [ spacing : TessSpacings, primitive_mode : TessPrimitiveModes,
      point_mode : BOOLEAN, ccw : BOOLEAN ]

\* lines 939-941: the stage whose declarations are used
tess_info_AlwaysEval(hs, ds) == ds

tess_info(hs, ds) ==
    IF ds.spacing = "TESS_SPACING_UNSPECIFIED" THEN hs ELSE ds

\* lines 943-951
tess_output(info) ==
    IF info.point_mode THEN "TESS_POINTS"
    ELSE IF info.primitive_mode = "GL_ISOLINES" THEN "TESS_LINES"
    ELSE IF info.ccw THEN "TESS_CCW_TRIS"
    ELSE "TESS_CW_TRIS"

\* lines 953-967: the values the switch can leave in spacing; the
\* unspecified case is marked unreachable, so the local is not assigned and
\* the field holds whatever the build left there
tess_spacing(info) ==
    CASE info.spacing = "TESS_SPACING_EQUAL" -> { "TESS_EQUAL" }
      [] info.spacing = "TESS_SPACING_FRACTIONAL_ODD" -> { "TESS_FRACTIONAL_ODD" }
      [] info.spacing = "TESS_SPACING_FRACTIONAL_EVEN" -> { "TESS_FRACTIONAL_EVEN" }
      [] OTHER -> { "TESS_EQUAL", "TESS_FRACTIONAL_ODD", "TESS_FRACTIONAL_EVEN",
                    "unnamed" }

\* the write of PC_TESS_CNTL; a build with assertions stops at the
\* unreachable case
emit_pc_tess_cntl ==
    /\ pc = "emit_tess_cntl"
    /\ LET info == tess_info(cmd.hs, cmd.ds)
       IN  \/ /\ info.spacing = "TESS_SPACING_UNSPECIFIED"
              /\ pc' = "aborted"
              /\ UNCHANGED regs
           \/ \E spacing \in tess_spacing(info) :
                /\ regs' = [ PC_TESS_CNTL |-> [ SPACING |-> spacing,
                                                OUTPUT |-> tess_output(info) ] ]
                /\ pc' = "tess_cntl_done"
    /\ UNCHANGED << kind, pipeline, builder, alloc, load_cs, vpc, linkage, vpc_out, cmd, create >>

InitTess ==
    /\ pc = "emit_tess_cntl"
    /\ kind = "graphics"
    /\ \E hs \in TessInfos, ds \in TessInfos :
          cmd = [ op |-> "tess_cntl", hs |-> hs, ds |-> ds ]
    /\ pipeline = ZeroPipeline(SeedLayout(<< 0, 0, 0 >>, 1, 1))
    /\ builder = NoBuilder
    /\ alloc = NoAlloc
    /\ load_cs = NoLoadCs
    /\ vpc = NoVpc
    /\ linkage = NoLinkage
    /\ vpc_out = NoVpcOut
    /\ regs = NoRegs
    /\ create = NoCreate

NextTess == emit_pc_tess_cntl

SpecTess == InitTess /\ [][NextTess]_vars

\* the declarations the claim names: the evaluation stage's, or the control
\* stage's when the evaluation stage leaves the spacing unspecified
DeclaringStage ==
    IF cmd.ds.spacing = "TESS_SPACING_UNSPECIFIED" THEN cmd.hs ELSE cmd.ds

\* C22: the spacing and output fields of PC_TESS_CNTL come from the
\* evaluation stage's declarations, or from the control stage's when the
\* evaluation stage's spacing is unspecified; the output mode is points for
\* point mode, else lines for isolines, else counter-clockwise triangles
\* when ccw is declared, else clockwise triangles.
C22_TessCntlFromDeclaringStage ==
    pc = "tess_cntl_done" =>
        LET d == DeclaringStage
            t == regs.PC_TESS_CNTL
        IN  /\ d.point_mode => t.OUTPUT = "TESS_POINTS"
            /\ (~d.point_mode /\ d.primitive_mode = "GL_ISOLINES") => t.OUTPUT = "TESS_LINES"
            /\ (~d.point_mode /\ d.primitive_mode # "GL_ISOLINES" /\ d.ccw)
                  => t.OUTPUT = "TESS_CCW_TRIS"
            /\ (~d.point_mode /\ d.primitive_mode # "GL_ISOLINES" /\ ~d.ccw)
                  => t.OUTPUT = "TESS_CW_TRIS"
            /\ d.spacing = "TESS_SPACING_EQUAL" => t.SPACING = "TESS_EQUAL"
            /\ d.spacing = "TESS_SPACING_FRACTIONAL_ODD" => t.SPACING = "TESS_FRACTIONAL_ODD"
            /\ d.spacing = "TESS_SPACING_FRACTIONAL_EVEN" => t.SPACING = "TESS_FRACTIONAL_EVEN"

\* C22 witness: the evaluation stage leaves the spacing unspecified and
\* declares point mode, the control stage declares fractional-odd spacing
\* and counter-clockwise triangles: the register follows the control stage.
C22_Witness ==
    /\ pc = "tess_cntl_done"
    /\ cmd.ds.spacing = "TESS_SPACING_UNSPECIFIED"
    /\ cmd.ds.point_mode
    /\ cmd.hs.spacing = "TESS_SPACING_FRACTIONAL_ODD"
    /\ ~cmd.hs.point_mode /\ cmd.hs.primitive_mode = "GL_TRIANGLES" /\ cmd.hs.ccw
    /\ regs.PC_TESS_CNTL = [ SPACING |-> "TESS_FRACTIONAL_ODD", OUTPUT |-> "TESS_CCW_TRIS" ]

(***************************************************************************)
(* C23: one colour attachment without blending and without a logic op      *)
(* (SpecBlend).                                                            *)
(***************************************************************************)
\* the description has one attachment, blendEnable off, logicOpEnable off
OneAttachmentNoBlend ==
    /\ cmd.create_info.pColorBlendState # NULL
    /\ Len(cmd.create_info.pColorBlendState.pAttachments) = 1
    /\ ~cmd.create_info.pColorBlendState.pAttachments[1].blendEnable
    /\ ~cmd.create_info.pColorBlendState.logicOpEnable

\* C23: with one colour attachment, blendEnable false and the logic op
\* disabled, bit 0 of the blend-enable mask in SP_BLEND_CNTL and RB_BLEND_CNTL
\* is clear and the attachment's RB_MRT_CONTROL has neither of the two blend
\* bits nor the rop-enable bit.
C23_NoBlendNoRop ==
    (pc = "blend_done" /\ regs.blend_emitted /\ OneAttachmentNoBlend) =>
        /\ 0 \notin regs.SP_BLEND_CNTL.enabled
        /\ 0 \notin regs.RB_BLEND_CNTL.enable_blend
        /\ \A i \in DOMAIN regs.RB_MRT_CONTROL :
              /\ ~regs.RB_MRT_CONTROL[i].blend
              /\ ~regs.RB_MRT_CONTROL[i].blend2
              /\ ~regs.RB_MRT_CONTROL[i].rop_enable

\* C23 witness: the attachment is a used one of a blendable format with an
\* alpha channel and its register carries the write mask only.
C23_Witness ==
    /\ pc = "blend_done"
    /\ regs.blend_emitted
    /\ OneAttachmentNoBlend
    /\ cmd.subpass_formats = << "VK_FORMAT_R8G8B8A8_UNORM" >>
    /\ Len(regs.RB_MRT_CONTROL) = 1
    /\ regs.RB_MRT_CONTROL[1].component_enable # {}
    /\ ~regs.RB_MRT_CONTROL[1].blend
    /\ regs.SP_BLEND_CNTL.enabled = {}

(***************************************************************************)
(* tu6_emit_vertex_input (lines 1444-1520).  Inputs: the binding and       *)
(* attribute descriptions of the create-info, every attribute naming a     *)
(* declared binding and no two attributes the same location, and the       *)
(* vertex variant's input table.  No divisor state is chained.             *)
(***************************************************************************)
MaxAttributes == 3

MaxInputs == 2

VERT_ATTRIB_GENERIC0 == 16

\* lines 1486-1489: the index of the first input whose slot is the
\* attribute's location, inputs_count when there is none.  A slot below
\* VERT_ATTRIB_GENERIC0 (a system value) gives a difference that no
\* location of the input layout equals.
RECURSIVE FindInputFrom(_, _, _)
FindInputFrom(inputs, location, input_idx) ==
    IF input_idx > Len(inputs) THEN input_idx
    ELSE IF inputs[input_idx].slot - VERT_ATTRIB_GENERIC0 = location THEN input_idx
    ELSE FindInputFrom(inputs, location, input_idx + 1)

FindInput_Any(inputs, location) == 1

FindInput(inputs, location) == FindInputFrom(inputs, location, 1)

\* lines 1480-1513: the register pairs of attributes i .. count, the first
\* of them at decode index vfd_decode_idx
RECURSIVE EmitAttributesFrom(_, _, _, _, _)
EmitAttributesFrom(info, vs, binding_instanced, i, vfd_decode_idx) ==
    IF i > Len(info.pVertexAttributeDescriptions) THEN << >>
    ELSE LET attr == info.pVertexAttributeDescriptions[i]
             input_idx == FindInput(vs.inputs, attr.location)
         IN  IF input_idx = Len(vs.inputs) + 1
             THEN EmitAttributesFrom(info, vs, binding_instanced, i + 1, vfd_decode_idx)
             ELSE << [ index |-> vfd_decode_idx,
                       attribute |-> i,
                       VFD_DECODE_INSTR |->
                          [ idx |-> attr.binding, offset |-> attr.offset,
                            instanced |-> attr.binding \in binding_instanced ],
                       VFD_DECODE_STEP_RATE |-> 1,
                       VFD_DEST_CNTL_INSTR |->
                          [ writemask |-> vs.inputs[input_idx].compmask,
                            regid |-> vs.inputs[input_idx].regid ] ] >>
                  \o EmitAttributesFrom(info, vs, binding_instanced, i + 1,
                                        vfd_decode_idx + 1)

tu6_emit_vertex_input ==
    /\ pc = "emit_vertex_input"
    /\ LET info == cmd.info
           bindings == { info.pVertexBindingDescriptions[i].binding :
                           i \in DOMAIN info.pVertexBindingDescriptions }
           binding_instanced ==
               { info.pVertexBindingDescriptions[i].binding :
                   i \in { j \in DOMAIN info.pVertexBindingDescriptions :
                             info.pVertexBindingDescriptions[j].inputRate
                                = "VK_VERTEX_INPUT_RATE_INSTANCE" } }
           pairs == EmitAttributesFrom(info, cmd.vs, binding_instanced, 1, 0)
       IN  regs' = [ VFD_FETCH_STRIDE |->
                           [ b \in bindings |->
                               info.pVertexBindingDescriptions[
                                  CHOOSE i \in DOMAIN info.pVertexBindingDescriptions :
                                     info.pVertexBindingDescriptions[i].binding = b ].stride ],
                        bindings_used |-> bindings,
                        VFD_ATTRIBUTES |-> pairs,
                        VFD_CONTROL_0 |-> [ fetch_cnt |-> Len(pairs),
                                            decode_cnt |-> Len(pairs) ] ]
    /\ pc' = "vertex_input_done"
    /\ UNCHANGED << kind, pipeline, builder, alloc, load_cs, vpc, linkage, vpc_out, cmd, create >>

RECURSIVE DistinctSeqs(_, _)
\* the sequences of n different elements of S
DistinctSeqs(S, n) ==
    IF n = 0 THEN { << >> }
    ELSE { Append(q, x) : q \in DistinctSeqs(S, n - 1), x \in S } 

AttributeLocations == 0 .. 3

\* slots of the input table: a system value below the generic attributes,
\* and generic attributes 0, 1 and 3
InputSlots ==
    { VERT_ATTRIB_GENERIC0 - 1, VERT_ATTRIB_GENERIC0, VERT_ATTRIB_GENERIC0 + 1,
      VERT_ATTRIB_GENERIC0 + 3 }

NoRepeat(q) == \A i, j \in DOMAIN q : i # j => q[i] # q[j]

InitVertexInput ==
    /\ pc = "emit_vertex_input"
    /\ kind = "graphics"
    /\ \E nb \in 1 .. 2, na \in 0 .. MaxAttributes, ni \in 0 .. MaxInputs :
         \E locs \in { q \in DistinctSeqs(AttributeLocations, na) : NoRepeat(q) },
            slots \in { q \in DistinctSeqs(InputSlots, ni) : NoRepeat(q) } :
            cmd = [ op |-> "vertex_input",
                    info |->
                       [ pVertexBindingDescriptions |->
                            [ i \in 1 .. nb |->
                                [ binding |-> i - 1, stride |-> 16 * i,
                                  inputRate |-> IF i = 2 THEN "VK_VERTEX_INPUT_RATE_INSTANCE"
                                                ELSE "VK_VERTEX_INPUT_RATE_VERTEX" ] ],
                         pVertexAttributeDescriptions |->
                            [ i \in 1 .. na |->
                                [ location |-> locs[i], binding |-> locs[i] % nb,
                                  offset |-> 4 * (i - 1) ] ] ],
                    vs |-> [ inputs |->
                               [ j \in 1 .. ni |->
                                   [ slot |-> slots[j], regid |-> 4 * (j - 1),
                                     compmask |-> { 0, 1, 2, 3 } ] ] ] ]
    /\ pipeline = ZeroPipeline(SeedLayout(<< 0, 0, 0 >>, 1, 1))
    /\ builder = NoBuilder
    /\ alloc = NoAlloc
    /\ load_cs = NoLoadCs
    /\ vpc = NoVpc
    /\ linkage = NoLinkage
    /\ vpc_out = NoVpcOut
    /\ regs = NoRegs
    /\ create = NoCreate

NextVertexInput == tu6_emit_vertex_input

SpecVertexInput == InitVertexInput /\ [][NextVertexInput]_vars

\* the attributes, by declaration index, whose location is a slot of the
\* vertex shader's input table
MatchedAttributes ==
    { i \in DOMAIN cmd.info.pVertexAttributeDescriptions :
        \E j \in DOMAIN cmd.vs.inputs :
           cmd.vs.inputs[j].slot
              = VERT_ATTRIB_GENERIC0 + cmd.info.pVertexAttributeDescriptions[i].location }

\* C24: an attribute of the input layout gets a decode/destination register
\* pair iff its location is a slot of the vertex shader's input table; the
\* pairs are numbered 0 .. k-1 in the declaration order of the matched
\* attributes, and fetch_cnt and decode_cnt of VFD_CONTROL_0 both equal k.
C24_MatchedAttributesDense ==
    pc = "vertex_input_done" =>
        LET pairs == regs.VFD_ATTRIBUTES
            k == Cardinality(MatchedAttributes)
        IN  /\ { pairs[n].attribute : n \in DOMAIN pairs } = MatchedAttributes
            /\ Len(pairs) = k
            /\ \A n \in DOMAIN pairs : pairs[n].index = n - 1
            /\ \A n, m \in DOMAIN pairs : n < m => pairs[n].attribute < pairs[m].attribute
            /\ regs.VFD_CONTROL_0.fetch_cnt = k
            /\ regs.VFD_CONTROL_0.decode_cnt = k

\* C24 witness: three attributes, the middle one unmatched: two pairs,
\* numbered 0 and 1, for the first and the third attribute.
C24_Witness ==
    /\ pc = "vertex_input_done"
    /\ Len(cmd.info.pVertexAttributeDescriptions) = 3
    /\ MatchedAttributes = { 1, 3 }
    /\ Len(regs.VFD_ATTRIBUTES) = 2
    /\ regs.VFD_ATTRIBUTES[2].index = 1
    /\ regs.VFD_ATTRIBUTES[2].attribute = 3
    /\ regs.VFD_CONTROL_0 = [ fetch_cnt |-> 2, decode_cnt |-> 2 ]

(***************************************************************************)
(* tu6_emit_xs_config (lines 328-468) and tu6_emit_cs_config (lines        *)
(* 470-496) as the packets they write.  A register value is the set of its *)
(* non-zero fields, << field, value >>: the value 0 is the empty set.  A   *)
(* 64-bit address is the pair of its 32-bit words, [ hi, lo ].             *)
(***************************************************************************)
Field(name, value) == IF value = 0 THEN {} ELSE { << name, value >> }

COND(bool, name) == IF bool THEN { << name, 1 >> } ELSE {}

\* tu_cs_emit_pkt4 / tu_cs_emit_pkt7 followed by the values; payload counts
\* the dwords of an array that follows them
Packet(type, reg, values, payload) ==
    [ type |-> type, reg |-> reg, values |-> values, payload |-> payload ]

\* the header dword, the values and the array
PacketDwords(packet) == 1 + Len(packet.values) + packet.payload

\* tu_cs_emit_qw: the low word, then the high word
tu_cs_emit_qw(iova) == << Field("LO", iova.lo), Field("HI", iova.hi) >>

\* the conversion of a uint64_t argument to a uint32_t parameter and back
U32(iova) == [ hi |-> 0, lo |-> iova.lo ]

\* static const struct xs_config xs_config[] (lines 334-373)
xs_config ==
    [ stage \in 0 .. MESA_SHADER_STAGES - 1 |->
        LET xs == << "VS", "HS", "DS", "GS", "FS", "CS" >>[stage + 1]
        IN  [ reg_sp_xs_ctrl |-> "SP_" \o xs \o "_CTRL_REG0",
              reg_sp_xs_config |-> "SP_" \o xs \o "_CONFIG",
              reg_hlsq_xs_ctrl |-> "HLSQ_" \o xs \o "_CNTL",
              reg_sp_vs_obj_start |-> "SP_" \o xs \o "_OBJ_START_LO" ] ]

\* the immediates packet of lines 444-467 as a packet of the stream
ImmediatesPackets(xs) ==
    LET packet == ImmediatesPacket(xs)
    IN  IF packet = NULL THEN << >>
        ELSE << Packet("pkt7", "CP_LOAD_STATE6",
                       << Field("DST_OFF", packet.DST_OFF)
                             \cup { << "STATE_TYPE_CONSTANTS", 1 >> }
                             \cup Field("NUM_UNIT", packet.NUM_UNIT),
                          {}, {} >>,
                       packet.payload) >>

\* a variant of tu6_emit_xs_config whose disabled stage also clears the
\* stage's first control register
tu6_emit_xs_config_ClearCtrlReg0(stage, xs, binary_iova) ==
    LET cfg == xs_config[stage]
    IN  IF xs = NULL
        THEN << Packet("pkt4", cfg.reg_sp_xs_ctrl, << {} >>, 0),
                Packet("pkt4", cfg.reg_sp_xs_config, << {} >>, 0),
                Packet("pkt4", cfg.reg_hlsq_xs_ctrl, << {} >>, 0) >>
        ELSE << >>

tu6_emit_xs_config(stage, xs, binary_iova) ==
    LET cfg == xs_config[stage]
        is_fs == xs.type = MESA_SHADER_FRAGMENT
    IN  IF xs = NULL
        THEN << Packet("pkt4", cfg.reg_sp_xs_config, << {} >>, 0),
                Packet("pkt4", cfg.reg_hlsq_xs_ctrl, << {} >>, 0) >>
        ELSE << Packet("pkt4", cfg.reg_sp_xs_ctrl,
                       << Field("THREADSIZE", IF xs.type = MESA_SHADER_GEOMETRY
                                              THEN 0 ELSE 1)
                             \cup Field("FULLREGFOOTPRINT", xs.max_reg + 1)
                             \cup COND(xs.total_in # 0 /\ is_fs, "VARYING")
                             \cup COND(is_fs, "UNK24") >>, 0),
                Packet("pkt4", cfg.reg_sp_xs_config,
                       << { << "ENABLED", 1 >> }, Field("INSTRLEN", xs.instrlen) >>, 0),
                Packet("pkt4", cfg.reg_hlsq_xs_ctrl,
                       << Field("CONSTLEN", xs.constlen) \cup { << "ENABLED", 1 >> } >>, 0),
                Packet("pkt4", cfg.reg_sp_vs_obj_start, tu_cs_emit_qw(binary_iova), 0),
                Packet("pkt7", "CP_LOAD_STATE6",
                       << { << "STATE_TYPE_SHADER", 1 >> }
                             \cup Field("NUM_UNIT", xs.instrlen) >>
                          \o tu_cs_emit_qw(binary_iova), 0) >>
             \o ImmediatesPackets(xs)

\* tu6_emit_cs_config: its binary_iova parameter is a uint32_t (line 473)
tu6_emit_cs_config(v, binary_iova) ==
    << Packet("pkt4", "HLSQ_INVALIDATE_CMD",
              << { << "CS_STATE", 1 >>, << "CS_IBO", 1 >> } >>, 0) >>
    \o tu6_emit_xs_config(MESA_SHADER_COMPUTE, v, U32(binary_iova))
    \o << Packet("pkt4", "SP_CS_UNKNOWN_A9B1", << { << "VALUE", 65 >> } >>, 0),
          Packet("pkt4", "HLSQ_CS_CNTL_0",
                 << Field("WGIDCONSTID", v.work_group_id)
                       \cup { << "UNK0", 252 >>, << "UNK1", 252 >> }
                       \cup Field("LOCALIDREGID", v.local_invocation_id),
                    { << "VALUE", 764 >> } >>, 0) >>

\* one call of tu6_emit_xs_config for a graphics stage (tu6_emit_program,
\* lines 1399-1409)
emit_xs_config ==
    /\ pc = "emit_xs_config"
    /\ regs' = [ packets |-> tu6_emit_xs_config(cmd.stage, cmd.xs, cmd.binary_iova) ]
    /\ pc' = "xs_config_done"
    /\ UNCHANGED << kind, pipeline, builder, alloc, load_cs, vpc, linkage, vpc_out, cmd, create >>

\* the call of tu6_emit_cs_config in tu_compute_pipeline_create (lines
\* 2629-2637) with the address tu_upload_variant returned
emit_cs_config ==
    /\ pc = "emit_cs_config"
    /\ regs' = [ packets |-> tu6_emit_cs_config(cmd.xs, cmd.binary_iova) ]
    /\ pc' = "cs_config_done"
    /\ UNCHANGED << kind, pipeline, builder, alloc, load_cs, vpc, linkage, vpc_out, cmd, create >>

\* the variants the encoders are run on; the constant file of a stage holds
\* up to 256 vec4 here and the immediates fill at most what follows their
\* offset
XsVariants(stage) ==
    { [ type |-> stage, instrlen |-> instrlen, constlen |-> constlen,
        max_reg |-> 3, total_in |-> IF stage = MESA_SHADER_FRAGMENT THEN 2 ELSE 0,
        immediate_offset |-> 4, immediates_count |-> count,
        work_group_id |-> 0, local_invocation_id |-> 4 ] :
      instrlen \in { 1, 4 }, constlen \in { 0, 8, 256 }, count \in { 0, 8, 512 } }

\* device addresses of a binary, 128-byte aligned, below and above 4 GiB
BinaryIovas ==
    [ hi : { 0, 1, 255 }, lo : { 0, 128, 1048576 } ]

InitXsConfig ==
    /\ kind \in { "graphics", "compute" }
    /\ pc = IF kind = "graphics" THEN "emit_xs_config" ELSE "emit_cs_config"
    /\ \E stage \in 0 .. MESA_SHADER_STAGES - 1, iova \in BinaryIovas :
         \E xs \in XsVariants(stage) \cup { NULL } :
            /\ kind = "compute" => stage = MESA_SHADER_COMPUTE /\ xs # NULL
            /\ xs = NULL => iova = [ hi |-> 0, lo |-> 0 ]
            /\ cmd = [ op |-> "xs_config", stage |-> stage, xs |-> xs,
                       binary_iova |-> iova ]
    /\ pipeline = ZeroPipeline(SeedLayout(<< 0, 0, 0 >>, 1, 1))
    /\ builder = NoBuilder
    /\ alloc = NoAlloc
    /\ load_cs = NoLoadCs
    /\ vpc = NoVpc
    /\ linkage = NoLinkage
    /\ vpc_out = NoVpcOut
    /\ regs = NoRegs
    /\ create = NoCreate

NextXsConfig == emit_xs_config \/ emit_cs_config

SpecXsConfig == InitXsConfig /\ [][NextXsConfig]_vars

\* C25: for a disabled stage tu6_emit_xs_config writes two registers and
\* nothing else: the stage's SP config register and the stage's HLSQ control
\* register, each with the value 0.
C25_DisabledStageTwoZeroWrites ==
    (pc = "xs_config_done" /\ cmd.xs = NULL) =>
        /\ Len(regs.packets) = 2
        /\ \A n \in 1 .. 2 :
              /\ regs.packets[n].type = "pkt4"
              /\ regs.packets[n].values = << {} >>
              /\ regs.packets[n].payload = 0
        /\ regs.packets[1].reg = xs_config[cmd.stage].reg_sp_xs_config
        /\ regs.packets[2].reg = xs_config[cmd.stage].reg_hlsq_xs_ctrl

\* C25 witness: the disabled geometry stage: SP_GS_CONFIG and HLSQ_GS_CNTL
\* are written with 0.
C25_Witness ==
    /\ pc = "xs_config_done"
    /\ cmd.xs = NULL
    /\ cmd.stage = MESA_SHADER_GEOMETRY
    /\ << regs.packets[1].reg, regs.packets[2].reg >> = << "SP_GS_CONFIG", "HLSQ_GS_CNTL" >>
    /\ regs.packets[1].values = << {} >>

\* the addresses a program carries: the two words after the object-start
\* register and the two address words of the binary's CP_LOAD_STATE6
WrittenIovas ==
    { [ lo |-> regs.packets[n].values[Len(regs.packets[n].values) - 1],
        hi |-> regs.packets[n].values[Len(regs.packets[n].values)] ] :
      n \in { m \in DOMAIN regs.packets :
                \/ regs.packets[m].reg = xs_config[cmd.stage].reg_sp_vs_obj_start
                \/ /\ regs.packets[m].reg = "CP_LOAD_STATE6"
                   /\ << "STATE_TYPE_SHADER", 1 >> \in regs.packets[m].values[1] } }

\* C30 (as stated): the address in the object-start register and in the
\* binary's load packet of a compute program is the full 64-bit address
\* tu_upload_variant returned, high word included.
C30_Original ==
    pc = "cs_config_done" =>
        WrittenIovas = { [ lo |-> Field("LO", cmd.binary_iova.lo),
                           hi |-> Field("HI", cmd.binary_iova.hi) ] }

(***************************************************************************)
(* tu6_vpc_varying_mode (lines 1021-1078) and tu6_emit_vpc_varying_modes   *)
(* (lines 1080-1118).  A mode byte and a 32-bit word are the sets of their *)
(* set bits; the two arrays are functions on 0 .. 7 and a write to any     *)
(* other index is recorded.  The inputs are the varyings of the fragment   *)
(* variant (the inputs ir3_next_varying walks), packed one after the other *)
(* from a first location, none beyond the 128 components of the varying    *)
(* file; a point-coordinate input has its x, its x and y, or all four      *)
(* components.                                                             *)
(***************************************************************************)
VaryingWords == 8

MaxFsInputs == 2

\* the components of compmask below component c
Rank(compmask, c) == Cardinality({ d \in compmask : d < c })

\* tu6_vpc_varying_mode: the two mode bytes and the number of bits used
tu6_vpc_varying_mode(input) ==
    LET compmask == input.compmask
        shift(c) == 2 * Rank(compmask, c)
    IN  IF input.slot = "VARYING_SLOT_PNTC"
        THEN [ bits |-> 2 * Cardinality(compmask),
               ps_repl_mode |-> (IF 0 \in compmask THEN { shift(0) } ELSE {})
                                \cup (IF 1 \in compmask THEN { shift(1) + 1 } ELSE {}),
               interp_mode |-> (IF 2 \in compmask THEN { shift(2) + 1 } ELSE {})
                               \cup (IF 3 \in compmask THEN { 6, 7 } ELSE {}) ]
        ELSE IF input.interpolate = "INTERP_MODE_FLAT" \/ input.rasterflat
        THEN [ bits |-> 2 * Cardinality(compmask),
               ps_repl_mode |-> {},
               interp_mode |-> { shift(c) : c \in compmask } ]
        ELSE [ bits |-> 0, ps_repl_mode |-> {}, interp_mode |-> {} ]

\* mode << shift and mode >> shift in a 32-bit word
ShiftLeft32(mode, shift) == { b + shift : b \in mode } \cap (0 .. 31)

ShiftRight(mode, shift) == { b - shift : b \in { a \in mode : a >= shift } }

\* line 1104: the shift of the part that continues in the next word
SpillShift_Same(shift) == shift

SpillShift(shift) == 32 - shift

\* array[n] |= word (lines 1100-1101, 1106-1107)
OrWord(array, n, word) ==
    IF n \in 0 .. VaryingWords - 1
    THEN [ array EXCEPT !.words[n] = @ \cup word ]
    ELSE [ array EXCEPT !.out_of_bounds = @ \cup { n } ]

\* lines 1097-1108 for one mode byte
OrMode(array, inloc, mode, bits) ==
    LET n == inloc \div 32
        shift == inloc % 32
        a1 == OrWord(array, n, ShiftLeft32(mode, shift))
    IN  IF shift + bits > 32
        THEN OrWord(a1, n + 1, ShiftRight(mode, SpillShift(shift)))
        ELSE a1

RECURSIVE VaryingModesFrom(_, _, _)
\* the loop of lines 1087-1110 from input i on
VaryingModesFrom(fs, i, arrays) ==
    IF i > Len(fs.inputs) THEN arrays
    ELSE LET m == tu6_vpc_varying_mode(fs.inputs[i])
             inloc == fs.inputs[i].inloc * 2
         IN  VaryingModesFrom(fs, i + 1,
                 [ interp_modes |-> OrMode(arrays.interp_modes, inloc, m.interp_mode, m.bits),
                   ps_repl_modes |-> OrMode(arrays.ps_repl_modes, inloc, m.ps_repl_mode, m.bits) ])

ZeroModes == [ words |-> [ n \in 0 .. VaryingWords - 1 |-> {} ], out_of_bounds |-> {} ]

tu6_emit_vpc_varying_modes ==
    /\ pc = "emit_varying_modes"
    /\ LET arrays == IF cmd.fs = NULL
                     THEN [ interp_modes |-> ZeroModes, ps_repl_modes |-> ZeroModes ]
                     ELSE VaryingModesFrom(cmd.fs, 1,
                              [ interp_modes |-> ZeroModes, ps_repl_modes |-> ZeroModes ])
       IN  regs' = [ VPC_VARYING_INTERP_MODE |-> arrays.interp_modes,
                     VPC_VARYING_PS_REPL_MODE |-> arrays.ps_repl_modes ]
    /\ pc' = "varying_modes_done"
    /\ UNCHANGED << kind, pipeline, builder, alloc, load_cs, vpc, linkage, vpc_out, cmd, create >>

\* the kinds of fragment inputs: slot, components, interpolation
FsInputKinds ==
    { [ slot |-> "VARYING_SLOT_PNTC", compmask |-> m, interpolate |-> "INTERP_MODE_NONE",
        rasterflat |-> FALSE ] : m \in { {0}, {0, 1}, {0, 1, 2, 3} } }
    \cup { [ slot |-> "VARYING_SLOT_VAR0", compmask |-> m, interpolate |-> "INTERP_MODE_FLAT",
             rasterflat |-> FALSE ] : m \in { {0}, {0, 1}, {0, 1, 2}, {0, 1, 3}, {0, 1, 2, 3} } }
    \cup { [ slot |-> "VARYING_SLOT_COL0", compmask |-> {0, 1, 2, 3},
             interpolate |-> "INTERP_MODE_SMOOTH", rasterflat |-> r ] : r \in BOOLEAN }

RECURSIVE PackedInloc(_, _, _)
\* the location of input i when the inputs follow one another from first
PackedInloc(kinds, i, first) ==
    IF i = 1 THEN first
    ELSE PackedInloc(kinds, i - 1, first) + Cardinality(kinds[i - 1].compmask)

\* the location of the first input
FirstInlocs == { 0, 13, 14, 15, 29, 124 }

InitVaryingModes ==
    /\ pc = "emit_varying_modes"
    /\ kind = "graphics"
    /\ \E n \in 0 .. MaxFsInputs, first \in FirstInlocs :
         \E kinds \in [ 1 .. n -> FsInputKinds ] :
            LET inloc(i) == PackedInloc(kinds, i, first)
                inputs == [ i \in 1 .. n |->
                              [ slot |-> kinds[i].slot, compmask |-> kinds[i].compmask,
                                interpolate |-> kinds[i].interpolate,
                                rasterflat |-> kinds[i].rasterflat,
                                inloc |-> inloc(i) ] ]
            IN  /\ n = 0 => first = 0
                /\ \A i \in 1 .. n : inloc(i) + Cardinality(kinds[i].compmask) <= 128
                /\ cmd = [ op |-> "varying_modes",
                           fs |-> IF n = 0 THEN NULL ELSE [ inputs |-> inputs ] ]
    /\ pipeline = ZeroPipeline(SeedLayout(<< 0, 0, 0 >>, 1, 1))
    /\ builder = NoBuilder
    /\ alloc = NoAlloc
    /\ load_cs = NoLoadCs
    /\ vpc = NoVpc
    /\ linkage = NoLinkage
    /\ vpc_out = NoVpcOut
    /\ regs = NoRegs
    /\ create = NoCreate

NextVaryingModes == tu6_emit_vpc_varying_modes

SpecVaryingModes == InitVaryingModes /\ [][NextVaryingModes]_vars

\* an array read as one little-endian bit string
BitString(array) ==
    { 32 * n + b : n \in 0 .. VaryingWords - 1, b \in 0 .. 31 } \cap
    UNION { { 32 * n + b : b \in array.words[n] } : n \in 0 .. VaryingWords - 1 }

\* the mode fields of the inputs, each at bit offset 2 * inloc
PlacedFields(which) ==
    IF cmd.fs = NULL THEN {}
    ELSE UNION { { 2 * cmd.fs.inputs[i].inloc + b :
                     b \in tu6_vpc_varying_mode(cmd.fs.inputs[i])[which] } :
                 i \in DOMAIN cmd.fs.inputs }

LiveShaders == { o \in create.live : o[1] = "shader" }

\* C27 (as stated): every shader object a create call creates is destroyed
\* before the call returns, on success and on every failure, for compute as
\* for graphics: after the return as many shader objects are live as before
\* the call.
C27_Original ==
    pc = "returned" => Cardinality(LiveShaders) = 0

(***************************************************************************)
(* The fixed-size draw-state blocks: what the parse functions reserve      *)
(* (lines 2204-2402) and what the encoders write into the reservation      *)
(* (lines 1522-1654, 1691-1763, 1797-1863).  A block is written as the     *)
(* list of its packets, each the number of values after its header dword;  *)
(* tu_cs_emit_regs writes one packet for the consecutive registers it is   *)
(* given.                                                                  *)
(***************************************************************************)
RECURSIVE PacketsDwords(_)
\* the dwords of a list of packets: a header and the values of each
PacketsDwords(packets) ==
    IF packets = << >> THEN 0
    ELSE 1 + Head(packets) + PacketsDwords(Tail(packets))

\* a variant of EncoderPackets that writes the two blend-control registers
\* of the blend block in one packet
EncoderPackets_OneBlendControlPacket(encoder, info) ==
    CASE encoder = "tu6_emit_viewport" -> << 6, 2, 1, 2, 2 >>
      [] encoder = "tu6_emit_scissor" -> << 2 >>
      [] encoder = "rast_state" -> << 1, 1, 1, 2 >>
      [] encoder = "GRAS_SU_CNTL" -> << 1 >>
      [] encoder = "tu6_emit_depth_bias" -> << 3 >>
      [] encoder = "ds_state" -> << 1, 1, 1 >>
      [] encoder = "RB_Z_BOUNDS" -> << 2 >>
      [] encoder = "RB_STENCILMASK" -> << 1 >>
      [] encoder = "RB_STENCILWRMASK" -> << 1 >>
      [] encoder = "RB_STENCILREF" -> << 1 >>
      [] encoder = "blend_state" -> [ i \in 1 .. info.attachmentCount |-> 2 ] \o << 2 >>
      [] encoder = "RB_BLEND_RED_F32" -> << 4 >>
      [] encoder = "tu6_emit_sample_locations" ->
            IF info.samp_loc THEN << 2, 2, 2 >> ELSE << 1, 1, 1 >>

\* the packets of each block
EncoderPackets(encoder, info) ==
    CASE encoder = "tu6_emit_viewport" -> << 6, 2, 1, 2, 2 >>
      [] encoder = "tu6_emit_scissor" -> << 2 >>
      [] encoder = "rast_state" -> << 1, 1, 1, 2 >>
      [] encoder = "GRAS_SU_CNTL" -> << 1 >>
      [] encoder = "tu6_emit_depth_bias" -> << 3 >>
      [] encoder = "ds_state" -> << 1, 1, 1 >>
      [] encoder = "RB_Z_BOUNDS" -> << 2 >>
      [] encoder = "RB_STENCILMASK" -> << 1 >>
      [] encoder = "RB_STENCILWRMASK" -> << 1 >>
      [] encoder = "RB_STENCILREF" -> << 1 >>
      [] encoder = "blend_state" -> [ i \in 1 .. info.attachmentCount |-> 2 ] \o << 1, 1 >>
      [] encoder = "RB_BLEND_RED_F32" -> << 4 >>
      [] encoder = "tu6_emit_sample_locations" ->
            IF info.samp_loc THEN << 2, 2, 2 >> ELSE << 1, 1, 1 >>

\* tu_cs_draw_state followed by the encoder: the block's name, the dwords
\* reserved and the dwords written
DrawStateBlock(id, size, encoder, info) ==
    << [ id |-> id, size |-> size,
         emitted |-> PacketsDwords(EncoderPackets(encoder, info)) ] >>

\* tu_pipeline_static_state followed by the encoder: nothing for a dynamic
\* state
StaticStateBlock(id, size, encoder, info) ==
    IF id \in info.dynamic_state_mask THEN << >>
    ELSE DrawStateBlock(id, size, encoder, info)

\* tu_pipeline_builder_parse_viewport (lines 2204-2228)
parse_viewport_blocks ==
    /\ pc = "blocks_viewport"
    /\ regs' = IF cmd.info.rasterizer_discard THEN regs
               ELSE regs \o StaticStateBlock("VIEWPORT", 18, "tu6_emit_viewport", cmd.info)
                         \o StaticStateBlock("SCISSOR", 3, "tu6_emit_scissor", cmd.info)
    /\ pc' = "blocks_rasterization"
    /\ UNCHANGED << kind, pipeline, builder, alloc, load_cs, vpc, linkage, vpc_out, cmd, create >>

\* tu_pipeline_builder_parse_rasterization (lines 2230-2284)
parse_rasterization_blocks ==
    /\ pc = "blocks_rasterization"
    /\ regs' = regs \o DrawStateBlock("rast_state", 9, "rast_state", cmd.info)
                    \o StaticStateBlock("LINE_WIDTH", 2, "GRAS_SU_CNTL", cmd.info)
                    \o StaticStateBlock("DEPTH_BIAS", 4, "tu6_emit_depth_bias", cmd.info)
    /\ pc' = "blocks_depth_stencil"
    /\ UNCHANGED << kind, pipeline, builder, alloc, load_cs, vpc, linkage, vpc_out, cmd, create >>

\* tu_pipeline_builder_parse_depth_stencil (lines 2286-2340)
parse_depth_stencil_blocks ==
    /\ pc = "blocks_depth_stencil"
    /\ regs' = regs \o DrawStateBlock("ds_state", 6, "ds_state", cmd.info)
                    \o StaticStateBlock("DEPTH_BOUNDS", 3, "RB_Z_BOUNDS", cmd.info)
                    \o StaticStateBlock("STENCIL_COMPARE_MASK", 2, "RB_STENCILMASK", cmd.info)
                    \o StaticStateBlock("STENCIL_WRITE_MASK", 2, "RB_STENCILWRMASK", cmd.info)
                    \o StaticStateBlock("STENCIL_REFERENCE", 2, "RB_STENCILREF", cmd.info)
    /\ pc' = "blocks_blend"
    /\ UNCHANGED << kind, pipeline, builder, alloc, load_cs, vpc, linkage, vpc_out, cmd, create >>

\* tu_pipeline_builder_parse_multisample_and_color_blend (lines 2342-2402)
parse_multisample_and_color_blend_blocks ==
    /\ pc = "blocks_blend"
    /\ regs' = IF cmd.info.rasterizer_discard THEN regs
               ELSE regs \o DrawStateBlock("blend_state", cmd.info.attachmentCount * 3 + 4,
                                           "blend_state", cmd.info)
                         \o StaticStateBlock("BLEND_CONSTANTS", 5, "RB_BLEND_RED_F32", cmd.info)
                         \o StaticStateBlock("TU_DYNAMIC_STATE_SAMPLE_LOCATIONS",
                                             IF cmd.info.samp_loc THEN 9 ELSE 6,
                                             "tu6_emit_sample_locations", cmd.info)
    /\ pc' = "blocks_done"
    /\ UNCHANGED << kind, pipeline, builder, alloc, load_cs, vpc, linkage, vpc_out, cmd, create >>

\* dynamic-state masks of the pipelines the blocks are built for
BlockDynamicMasks ==
    { {}, { "VIEWPORT", "LINE_WIDTH" }, { "DEPTH_BOUNDS", "TU_DYNAMIC_STATE_SAMPLE_LOCATIONS" },
      { "SCISSOR", "DEPTH_BIAS", "STENCIL_COMPARE_MASK", "STENCIL_WRITE_MASK",
        "STENCIL_REFERENCE", "BLEND_CONSTANTS" } }

InitBlocks ==
    /\ pc = "blocks_viewport"
    /\ kind = "graphics"
    /\ \E n \in 0 .. MAX_RTS, samp_loc \in BOOLEAN, discard \in BOOLEAN,
          mask \in BlockDynamicMasks :
         cmd = [ op |-> "blocks",
                 info |-> [ attachmentCount |-> n, samp_loc |-> samp_loc,
                            rasterizer_discard |-> discard,
                            dynamic_state_mask |-> mask ] ]
    /\ pipeline = ZeroPipeline(SeedLayout(<< 0, 0, 0 >>, 1, 1))
    /\ builder = NoBuilder
    /\ alloc = NoAlloc
    /\ load_cs = NoLoadCs
    /\ vpc = NoVpc
    /\ linkage = NoLinkage
    /\ vpc_out = NoVpcOut
    /\ regs = NoRegs
    /\ create = NoCreate

NextBlocks ==
    \/ parse_viewport_blocks
    \/ parse_rasterization_blocks
    \/ parse_depth_stencil_blocks
    \/ parse_multisample_and_color_blend_blocks

SpecBlocks == InitBlocks /\ [][NextBlocks]_vars

\* the sizes the blocks are stated to have
StatedBlockSize(id) ==
    CASE id = "VIEWPORT" -> 18
      [] id = "SCISSOR" -> 3
      [] id = "rast_state" -> 9
      [] id = "LINE_WIDTH" -> 2
      [] id = "DEPTH_BIAS" -> 4
      [] id = "ds_state" -> 6
      [] id = "DEPTH_BOUNDS" -> 3
      [] id \in { "STENCIL_COMPARE_MASK", "STENCIL_WRITE_MASK", "STENCIL_REFERENCE" } -> 2
      [] id = "blend_state" -> cmd.info.attachmentCount * 3 + 4
      [] id = "BLEND_CONSTANTS" -> 5
      [] id = "TU_DYNAMIC_STATE_SAMPLE_LOCATIONS" -> IF cmd.info.samp_loc THEN 9 ELSE 6

\* C28: every draw-state block is filled exactly: the encoder writes as many
\* dwords as were reserved, and the reservation is 18 for the viewport, 3
\* for the scissor, 9 for the rasterizer, 2 for the line width, 4 for the
\* depth bias, 6 for depth/stencil, 3 for the depth bounds, 2 for each
\* stencil mask and the reference, attachmentCount * 3 + 4 for the blend
\* block, 5 for the blend constants, 9 or 6 for the sample locations.
C28_BlocksFilledExactly ==
    pc \in { "blocks_rasterization", "blocks_depth_stencil", "blocks_blend", "blocks_done" } =>
        \A n \in DOMAIN regs :
           /\ regs[n].emitted = regs[n].size
           /\ regs[n].size = StatedBlockSize(regs[n].id)

\* C28 witness: all blocks static, MAX_RTS attachments, explicit sample
\* locations: thirteen blocks, the blend block of 28 dwords among them.
C28_Witness ==
    /\ pc = "blocks_done"
    /\ cmd.info.attachmentCount = MAX_RTS
    /\ cmd.info.samp_loc
    /\ Len(regs) = 13
    /\ \E n \in DOMAIN regs :
          regs[n] = [ id |-> "blend_state", size |-> 28, emitted |-> 28 ]
    /\ \E n \in DOMAIN regs :
          regs[n] = [ id |-> "TU_DYNAMIC_STATE_SAMPLE_LOCATIONS", size |-> 9, emitted |-> 9 ]

(***************************************************************************)
(* C29: the dwords of a program sub-stream against the 512 reserved for it *)
(* (SpecXsConfig).  The compute program is what tu6_emit_cs_config writes; *)
(* the packets of one tu6_emit_xs_config call are a part of a draw or      *)
(* binning program.                                                        *)
(***************************************************************************)
RECURSIVE StreamDwords(_)
StreamDwords(packets) ==
    IF packets = << >> THEN 0
    ELSE PacketDwords(Head(packets)) + StreamDwords(Tail(packets))

\* C29 (as stated): whatever the variant's metadata, immediates up to the
\* constant length included, the dwords written into a program sub-stream
\* by tu6_emit_cs_config, and so also by any one stage's tu6_emit_xs_config
\* within tu6_emit_program, are at most the 512 reserved.
C29_Original ==
    pc \in { "cs_config_done", "xs_config_done" } =>
        StreamDwords(regs.packets) <= PROGRAM_CS_SIZE
====
